---- MODULE Spec2Model ----
(***************************************************************************)
(* A model of the hyperlane rebalancer: route extraction (ParseRoutes),    *)
(* message generation (Generate) and verification (Verify, MatchesRoute),  *)
(* with the whitelist (LoadConfig, ValidateRoute).                         *)
(*                                                                         *)
(* Go strings are modelled as sequences of one-character strings, so that  *)
(* prefixes, letter case, hex and decimal digits are what the code sees.   *)
(* Byte slices are sequences of numbers 0..255.                            *)
(***************************************************************************)
EXTENDS Integers, Sequences, FiniteSets, TLC

(***************************************************************************)
(* strings                                                                 *)
(***************************************************************************)
UpperChars ==
    << "A", "B", "C", "D", "E", "F", "G", "H", "I", "J", "K", "L", "M",
       "N", "O", "P", "Q", "R", "S", "T", "U", "V", "W", "X", "Y", "Z" >>

LowerChars ==
    << "a", "b", "c", "d", "e", "f", "g", "h", "i", "j", "k", "l", "m",
       "n", "o", "p", "q", "r", "s", "t", "u", "v", "w", "x", "y", "z" >>

IndexOf(c, chars) ==
    IF \E i \in 1..Len(chars) : chars[i] = c
    THEN CHOOSE i \in 1..Len(chars) : chars[i] = c
    ELSE 0

\* strings.ToLower, on the ASCII letters
LowerOf ==
    [c \in {UpperChars[i] : i \in 1..Len(UpperChars)} |-> LowerChars[IndexOf(c, UpperChars)]]

ToLowerCh(c) == IF c \in DOMAIN LowerOf THEN LowerOf[c] ELSE c

ToLower(s) == [i \in 1..Len(s) |-> ToLowerCh(s[i])]

\* the upper-case spelling of a string: used to write inputs, never by the code
ToUpperCh(c) ==
    IF IndexOf(c, LowerChars) # 0 THEN UpperChars[IndexOf(c, LowerChars)] ELSE c

ToUpper(s) == [i \in 1..Len(s) |-> ToUpperCh(s[i])]

\* strings.HasPrefix
HasPrefix(s, p) == Len(s) >= Len(p) /\ SubSeq(s, 1, Len(p)) = p

\* strings.TrimPrefix
TrimPrefix(s, p) == IF HasPrefix(s, p) THEN SubSeq(s, Len(p) + 1, Len(s)) ELSE s

\* strings.TrimSpace
TrimSpace(s) ==
    LET IsSpace(c) == c \in {" ", "\t", "\n", "\r"}
        keep == {i \in 1..Len(s) : ~IsSpace(s[i])}
        lo == CHOOSE i \in keep : \A j \in keep : i <= j
        hi == CHOOSE i \in keep : \A j \in keep : j <= i
    IN  IF keep = {} THEN << >> ELSE SubSeq(s, lo, hi)

(***************************************************************************)
(* encoding/hex and fmt's %x                                               *)
(***************************************************************************)
HexChars ==
    << "0", "1", "2", "3", "4", "5", "6", "7", "8", "9", "a", "b", "c", "d", "e", "f" >>

\* the value of a hex digit of either case, -1 for any other character
HexVal(c) == IndexOf(ToLowerCh(c), HexChars) - 1

\* hex.DecodeString: an odd length or a character that is no hex digit is an error
HexDecodeString(s) ==
    IF Len(s) % 2 = 0 /\ \A i \in 1..Len(s) : HexVal(s[i]) >= 0
    THEN [ok |-> TRUE,
          bytes |-> [i \in 1..(Len(s) \div 2) |->
                        16 * HexVal(s[2 * i - 1]) + HexVal(s[2 * i])]]
    ELSE [ok |-> FALSE, bytes |-> << >>]

\* fmt.Sprintf("%x", b) and hex.EncodeToString(b): two lower-case digits a byte
SprintfHex(b) ==
    [i \in 1..(2 * Len(b)) |->
        IF i % 2 = 1 THEN HexChars[(b[(i + 1) \div 2] \div 16) + 1]
                     ELSE HexChars[(b[i \div 2] % 16) + 1]]

(***************************************************************************)
(* cosmossdk.io/math: Int                                                  *)
(*                                                                         *)
(* NewIntFromString is big.Int.SetString(s, 0): an optional sign, then     *)
(* digits whose base the prefix selects (0x: 16, 0b: 2, 0o or a leading    *)
(* 0: 8, none: 10); the whole string must be consumed.  The digit          *)
(* separator "_" and the 256-bit limit are outside the amounts modelled.   *)
(***************************************************************************)
RECURSIVE DigitsValue(_, _)
DigitsValue(ds, base) ==
    IF ds = << >> THEN 0
    ELSE base * DigitsValue(SubSeq(ds, 1, Len(ds) - 1), base) + HexVal(ds[Len(ds)])

DigitsIn(ds, base) ==
    /\ ds # << >>
    /\ \A i \in 1..Len(ds) : HexVal(ds[i]) >= 0 /\ HexVal(ds[i]) < base

ParseUnsigned(s) ==
    LET low == ToLower(s)
        body == IF HasPrefix(low, << "0", "x" >>) THEN [base |-> 16, ds |-> SubSeq(s, 3, Len(s))]
                ELSE IF HasPrefix(low, << "0", "b" >>) THEN [base |-> 2, ds |-> SubSeq(s, 3, Len(s))]
                ELSE IF HasPrefix(low, << "0", "o" >>) THEN [base |-> 8, ds |-> SubSeq(s, 3, Len(s))]
                ELSE IF HasPrefix(s, << "0" >>) /\ Len(s) > 1 THEN [base |-> 8, ds |-> SubSeq(s, 2, Len(s))]
                ELSE [base |-> 10, ds |-> s]
    IN  IF DigitsIn(body.ds, body.base)
        THEN [ok |-> TRUE, val |-> DigitsValue(body.ds, body.base)]
        ELSE [ok |-> FALSE, val |-> 0]

\* math.NewIntFromString
NewIntFromString(s) ==
    IF s = << >> THEN [ok |-> FALSE, val |-> 0]
    ELSE IF s[1] = "-"
         THEN LET u == ParseUnsigned(Tail(s)) IN [ok |-> u.ok, val |-> 0 - u.val]
    ELSE IF s[1] = "+" THEN ParseUnsigned(Tail(s))
    ELSE ParseUnsigned(s)

RECURSIVE NatToStr(_)
NatToStr(n) ==
    IF n < 10 THEN << HexChars[n + 1] >>
    ELSE Append(NatToStr(n \div 10), HexChars[(n % 10) + 1])

\* math.Int.String: the canonical decimal form
IntToStr(n) == IF n < 0 THEN << "-" >> \o NatToStr(0 - n) ELSE NatToStr(n)

(***************************************************************************)
(* sdk.AccAddressFromBech32                                                *)
(*                                                                         *)
(* An address string is prefix, "1", data, checksum.  The data part is     *)
(* abstracted to two characters of the bech32 alphabet per byte and the    *)
(* checksum to one character; decoding fails on a mixed-case string, a     *)
(* wrong prefix, a character outside the alphabet, a wrong checksum, or    *)
(* an empty address, as the library does; the library's limit of 255       *)
(* bytes is beyond the addresses modelled.                                 *)
(***************************************************************************)
Bech32Chars ==
    << "q", "p", "z", "r", "y", "9", "x", "8", "g", "f", "2", "t", "v", "d", "w", "0",
       "s", "3", "j", "n", "5", "4", "k", "h", "c", "e", "6", "m", "u", "a", "7", "l" >>

Bech32PrefixAccAddr == << "c", "e", "l", "e", "s", "t", "i", "a" >>

RECURSIVE SumBytes(_)
SumBytes(b) == IF b = << >> THEN 0 ELSE Head(b) + SumBytes(Tail(b))

Bech32Checksum(b) == Bech32Chars[(SumBytes(b) % 32) + 1]

\* the address string an account's bytes are written as
Bech32Encode(b) ==
    Bech32PrefixAccAddr \o << "1" >>
        \o [i \in 1..(2 * Len(b)) |->
               IF i % 2 = 1 THEN Bech32Chars[(b[(i + 1) \div 2] \div 16) + 1]
                            ELSE Bech32Chars[(b[i \div 2] % 16) + 1]]
        \o << Bech32Checksum(b) >>

AccAddressFromBech32(address) ==
    LET fail == [ok |-> FALSE, bytes |-> << >>]
        low  == ToLower(address)
        hrpLen == Len(Bech32PrefixAccAddr)
        data == SubSeq(low, hrpLen + 2, Len(low) - 1)
        nib(c) == IndexOf(c, Bech32Chars) - 1
        bytes == [i \in 1..(Len(data) \div 2) |-> 16 * nib(data[2 * i - 1]) + nib(data[2 * i])]
    IN  IF TrimSpace(address) = << >> THEN fail
        ELSE IF address # low /\ address # ToUpper(address) THEN fail
        ELSE IF Len(low) < hrpLen + 2 THEN fail
        ELSE IF SubSeq(low, 1, hrpLen + 1) # Bech32PrefixAccAddr \o << "1" >> THEN fail
        ELSE IF Len(data) % 2 # 0 THEN fail
        ELSE IF \E i \in 1..Len(data) : nib(data[i]) < 0 \/ nib(data[i]) > 15 THEN fail
        ELSE IF low[Len(low)] # Bech32Checksum(bytes) THEN fail
        ELSE IF Len(bytes) = 0 THEN fail
        ELSE [ok |-> TRUE, bytes |-> bytes]

(***************************************************************************)
(* pkg/types: routes                                                       *)
(*                                                                         *)
(* A string that the code reads as JSON (custom_hook_metadata, the memo)   *)
(* is a document [kind, fields]: the empty string, a text that is not      *)
(* JSON, or an object whose fields are each absent, a number or a string. *)
(***************************************************************************)
EmptyString == [kind |-> "empty"]

InvalidJSON == [kind |-> "invalid"]

JAbsent == [t |-> "absent"]

JNum(n) == [t |-> "number", v |-> n]

JStr(s) == [t |-> "string", v |-> s]

JObject(domain, recipient, tokenID, amount) ==
    [kind |-> "object",
     fields |-> [destination_domain |-> domain, recipient |-> recipient,
                 token_id |-> tokenID, amount |-> amount]]

\* encoding/json into a uint32 field: absent leaves 0, a string or a
\* negative number is a type error
DecodeUint32(j) ==
    IF j.t = "absent" THEN [ok |-> TRUE, v |-> 0]
    ELSE IF j.t = "number" /\ j.v >= 0 THEN [ok |-> TRUE, v |-> j.v]
    ELSE [ok |-> FALSE, v |-> 0]

\* encoding/json into a string field: absent leaves "", a number is a type error
DecodeString(j) ==
    IF j.t = "absent" THEN [ok |-> TRUE, v |-> << >>]
    ELSE IF j.t = "string" THEN [ok |-> TRUE, v |-> j.v]
    ELSE [ok |-> FALSE, v |-> << >>]

\* a nil *RouteInfo
NilRouteInfo == [nil |-> TRUE]

RouteInfo(domain, recipient, tokenID, amount) ==
    [DestinationDomain |-> domain, Recipient |-> recipient, TokenID |-> tokenID,
     Amount |-> amount]

HyperlaneRoute(txHash, height, from, amount, metadata, routeInfo) ==
    [TxHash |-> txHash, BlockHeight |-> height, From |-> from, Amount |-> amount,
     Denom |-> "utia", CustomHookMetadata |-> metadata, RouteInfo |-> routeInfo]

MsgRemoteTransfer(sender, tokenId, domain, recipient, amount, metadata) ==
    [Sender |-> sender, TokenId |-> tokenId, DestinationDomain |-> domain,
     Recipient |-> recipient, Amount |-> amount, CustomHookMetadata |-> metadata]

(***************************************************************************)
(* pkg/generator                                                           *)
(***************************************************************************)
\* the length of a token id and of a util.HexAddress
TokenIDLen == 32

HexAddressLen == 32

Zeros(n) == [i \in 1..n |-> 0]

\* parseTokenID refusing only what is shorter than 32 bytes
parseTokenID_AtLeast(tokenIDStr) ==
    LET dec == HexDecodeString(TrimPrefix(tokenIDStr, << "0", "x" >>))
    IN  IF ~dec.ok THEN [err |-> "hex", bytes |-> << >>]
        ELSE IF Len(dec.bytes) < TokenIDLen THEN [err |-> "length", bytes |-> << >>]
        ELSE [err |-> "none", bytes |-> dec.bytes]

\* parseTokenID
parseTokenID(tokenIDStr) ==
    LET dec == HexDecodeString(TrimPrefix(tokenIDStr, << "0", "x" >>))
    IN  IF ~dec.ok THEN [err |-> "hex", bytes |-> << >>]
        ELSE IF Len(dec.bytes) # TokenIDLen THEN [err |-> "length", bytes |-> << >>]
        ELSE [err |-> "none", bytes |-> dec.bytes]

\* parseAndPadAddress copying the address to the front of the 32 bytes
parseAndPadAddress_RightPad(addrStr) ==
    LET isHex == HasPrefix(addrStr, << "0", "x" >>)
        hex == HexDecodeString(TrimPrefix(addrStr, << "0", "x" >>))
        acc == AccAddressFromBech32(addrStr)
        ok == IF isHex THEN hex.ok ELSE acc.ok
        addrBytes == IF isHex THEN hex.bytes ELSE acc.bytes
    IN  IF ~ok THEN [err |-> IF isHex THEN "hex" ELSE "bech32", bytes |-> << >>]
        ELSE IF Len(addrBytes) > HexAddressLen THEN [err |-> "panic", bytes |-> << >>]
        ELSE [err |-> "none",
              bytes |-> addrBytes \o Zeros(HexAddressLen - Len(addrBytes))]

\* parseAndPadAddress: an address of more than 32 bytes makes the slice
\* paddedAddr[32-len(addrBytes):] start below zero, a run-time panic
parseAndPadAddress(addrStr) ==
    LET isHex == HasPrefix(addrStr, << "0", "x" >>)
        hex == HexDecodeString(TrimPrefix(addrStr, << "0", "x" >>))
        acc == AccAddressFromBech32(addrStr)
        ok == IF isHex THEN hex.ok ELSE acc.ok
        addrBytes == IF isHex THEN hex.bytes ELSE acc.bytes
    IN  IF ~ok THEN [err |-> IF isHex THEN "hex" ELSE "bech32", bytes |-> << >>]
        ELSE IF Len(addrBytes) > HexAddressLen THEN [err |-> "panic", bytes |-> << >>]
        ELSE [err |-> "none",
              bytes |-> Zeros(HexAddressLen - Len(addrBytes)) \o addrBytes]

\* the body of Generate's loop for one route
GenerateMsg(multisigAddr, route) ==
    LET amount == NewIntFromString(route.Amount)
        tokenID == parseTokenID(route.RouteInfo.TokenID)
        recipient == parseAndPadAddress(route.RouteInfo.Recipient)
        none == << >>
    IN  IF route.RouteInfo = NilRouteInfo THEN [err |-> "no_route_info", msg |-> none]
        ELSE IF ~amount.ok THEN [err |-> "invalid_amount", msg |-> none]
        ELSE IF tokenID.err # "none" THEN [err |-> "invalid_token_id", msg |-> none]
        ELSE IF recipient.err = "panic" THEN [err |-> "panic", msg |-> none]
        ELSE IF recipient.err # "none" THEN [err |-> "invalid_recipient", msg |-> none]
        ELSE [err |-> "none",
              msg |-> MsgRemoteTransfer(multisigAddr, tokenID.bytes,
                                        route.RouteInfo.DestinationDomain,
                                        recipient.bytes, amount.val, EmptyString)]

\* Generate's loop putting each message before those of the earlier routes
RECURSIVE GenerateLoop_Prepend(_, _, _)
GenerateLoop_Prepend(multisigAddr, rs, msgs) ==
    IF rs = << >> THEN [err |-> "none", msgs |-> msgs]
    ELSE LET one == GenerateMsg(multisigAddr, Head(rs))
         IN  IF one.err # "none" THEN [err |-> one.err, msgs |-> << >>]
             ELSE GenerateLoop_Prepend(multisigAddr, Tail(rs), << one.msg >> \o msgs)

RECURSIVE GenerateLoop(_, _, _)
GenerateLoop(multisigAddr, rs, msgs) ==
    IF rs = << >> THEN [err |-> "none", msgs |-> msgs]
    ELSE LET one == GenerateMsg(multisigAddr, Head(rs))
         IN  IF one.err # "none" THEN [err |-> one.err, msgs |-> << >>]
             ELSE GenerateLoop(multisigAddr, Tail(rs), Append(msgs, one.msg))

\* Generator.Generate
Generate(multisigAddr, routes) == GenerateLoop(multisigAddr, routes.Routes, << >>)

(***************************************************************************)
(* pkg/verifier                                                            *)
(*                                                                         *)
(* A transaction body is [ok, Messages]: ok says whether the bytes decode  *)
(* as a TxBody.  A message is an Any, [TypeUrl, Value], whose Value is     *)
(* [ok, msg]: ok says whether the bytes decode as the message type.        *)
(***************************************************************************)
TypeRemoteTransfer == "/hyperlane.warp.v1.MsgRemoteTransfer"

TypeSend == "/cosmos.bank.v1beta1.MsgSend"

AnyMsg(typeUrl, ok, msg) == [TypeUrl |-> typeUrl, Value |-> [ok |-> ok, msg |-> msg]]

TxBody(ok, messages) == [ok |-> ok, Messages |-> messages]

TxRaw(body) == [BodyBytes |-> body]

\* the width MatchesRoute pads an expected recipient to
VerifierPadLen == 32

\* MatchesRoute, lines 133-137: the amount the message is compared with
ExpectedAmount(route) ==
    IF route.RouteInfo.Amount # << >> THEN route.RouteInfo.Amount ELSE route.Amount

\* MatchesRoute with the padding of lines 160-171 left out
ExpectedRecipientHex_NoPad(route) ==
    TrimPrefix(ToLower(route.RouteInfo.Recipient), << "0", "x" >>)

\* MatchesRoute, lines 150-172: the hex string the recipient is compared with
ExpectedRecipientHex(route) ==
    LET recipient == route.RouteInfo.Recipient
        raw == TrimPrefix(ToLower(recipient), << "0", "x" >>)
        acc == AccAddressFromBech32(recipient)
        dec == HexDecodeString(raw)
    IN  IF ~HasPrefix(recipient, << "0", "x" >>)
        THEN IF acc.ok
             THEN SprintfHex(Zeros(VerifierPadLen - Len(acc.bytes)) \o acc.bytes)
             ELSE raw
        ELSE IF dec.ok /\ Len(dec.bytes) < VerifierPadLen
             THEN SprintfHex(Zeros(VerifierPadLen - Len(dec.bytes)) \o dec.bytes)
             ELSE raw

\* MatchesRoute, lines 128-148: the checks made before the recipient is looked at
MatchesUpToToken(msg, route) ==
    /\ msg.DestinationDomain = route.RouteInfo.DestinationDomain
    /\ IntToStr(msg.Amount) = ExpectedAmount(route)
    /\ SprintfHex(msg.TokenId) = TrimPrefix(ToLower(route.RouteInfo.TokenID), << "0", "x" >>)

\* MatchesRoute, line 161: a bech32 recipient of more than 32 bytes makes the
\* slice paddedAddr[32-len(addr.Bytes()):] start below zero, a run-time panic
MatchesRoutePanics(msg, route) ==
    /\ MatchesUpToToken(msg, route)
    /\ ~HasPrefix(route.RouteInfo.Recipient, << "0", "x" >>)
    /\ AccAddressFromBech32(route.RouteInfo.Recipient).ok
    /\ Len(AccAddressFromBech32(route.RouteInfo.Recipient).bytes) > VerifierPadLen

\* Verifier.MatchesRoute
MatchesRoute(msg, route) ==
    /\ MatchesUpToToken(msg, route)
    /\ ~MatchesRoutePanics(msg, route)
    /\ SprintfHex(msg.Recipient) = ExpectedRecipientHex(route)

VerifyResult(valid, matched, total, errors) ==
    [Valid |-> valid, MatchedCount |-> matched, TotalRoutes |-> total,
     Errors |-> errors, Warnings |-> << >>]

\* Verify, lines 76-86: the messages of the transaction that are MsgRemoteTransfer
RECURSIVE ExtractRemoteTxs(_)
ExtractRemoteTxs(messages) ==
    IF messages = << >> THEN << >>
    ELSE LET anyMsg == Head(messages)
         IN  IF anyMsg.TypeUrl = TypeRemoteTransfer /\ anyMsg.Value.ok
             THEN << anyMsg.Value.msg >> \o ExtractRemoteTxs(Tail(messages))
             ELSE ExtractRemoteTxs(Tail(messages))

\* Verify, lines 89-94: the number of messages against the number of routes
CheckCount(result, remoteTxs, routes) ==
    IF Len(remoteTxs) # Len(routes.Routes)
    THEN [result EXCEPT !.Valid = FALSE,
                        !.Errors = Append(@, [kind |-> "count", route |-> 0])]
    ELSE result

\* Verify, lines 106-113: the first message MatchesRoute accepts (0: none);
\* a message on which it panics, met before, ends the search
FirstMatch(remoteTxs, route) ==
    LET hits == {k \in 1..Len(remoteTxs) :
                    MatchesRoute(remoteTxs[k], route) \/ MatchesRoutePanics(remoteTxs[k], route)}
    IN  IF hits = {} THEN 0 ELSE CHOOSE k \in hits : \A j \in hits : k <= j

\* Verify with line 116 left out: a route without a match leaves Valid alone
VerifyRoute_KeepValid(result, i, route, remoteTxs) ==
    IF route.RouteInfo = NilRouteInfo
    THEN [result EXCEPT !.Valid = FALSE,
                        !.Errors = Append(@, [kind |-> "no_route_info", route |-> i])]
    ELSE IF FirstMatch(remoteTxs, route) # 0
    THEN [result EXCEPT !.MatchedCount = @ + 1]
    ELSE [result EXCEPT !.Errors = Append(@, [kind |-> "no_match", route |-> i])]

\* Verify, lines 97-120: the body of the loop over the routes
VerifyRoute(result, i, route, remoteTxs) ==
    IF route.RouteInfo = NilRouteInfo
    THEN [result EXCEPT !.Valid = FALSE,
                        !.Errors = Append(@, [kind |-> "no_route_info", route |-> i])]
    ELSE IF FirstMatch(remoteTxs, route) # 0
    THEN [result EXCEPT !.MatchedCount = @ + 1]
    ELSE [result EXCEPT !.Valid = FALSE,
                        !.Errors = Append(@, [kind |-> "no_match", route |-> i])]

RECURSIVE VerifyLoop(_, _, _, _)
VerifyLoop(result, i, routes, remoteTxs) ==
    IF i > Len(routes.Routes) THEN [err |-> "none", result |-> result]
    ELSE LET route == routes.Routes[i]
             k == FirstMatch(remoteTxs, route)
         IN  IF route.RouteInfo # NilRouteInfo /\ k # 0 /\ MatchesRoutePanics(remoteTxs[k], route)
             THEN [err |-> "panic", result |-> result]
             ELSE VerifyLoop(VerifyRoute(result, i, route, remoteTxs), i + 1, routes, remoteTxs)

\* Verifier.Verify
Verify(routes, txRaw) ==
    LET result == VerifyResult(TRUE, 0, Len(routes.Routes), << >>)
        remoteTxs == ExtractRemoteTxs(txRaw.BodyBytes.Messages)
    IN  IF ~txRaw.BodyBytes.ok
        THEN [err |-> "none",
              result |-> [result EXCEPT !.Valid = FALSE,
                                        !.Errors = << [kind |-> "body", route |-> 0] >>]]
        ELSE VerifyLoop(CheckCount(result, remoteTxs, routes), 1, routes, remoteTxs)

(***************************************************************************)
(* The files handed from one command to the next.  A file is a JSON        *)
(* document, [kind, value]: an object, an array or null.                   *)
(***************************************************************************)
\* parseCmd: json.MarshalIndent(routes)
MarshalRoutes(routes) == [kind |-> "object", value |-> routes]

\* generateCmd: json.MarshalIndent(msgs) of a []sdk.Msg, which is nil (null)
\* when there was no route and an array otherwise
MarshalMsgs(msgs) ==
    IF msgs = << >> THEN [kind |-> "null", value |-> << >>]
    ELSE [kind |-> "array", value |-> msgs]

\* a transaction file that does hold a tx.TxRaw
MarshalTxRaw(txRaw) == [kind |-> "object", value |-> txRaw]

EmptyRoutes == [Routes |-> << >>, TotalAmount |-> << >>, MultisigAddr |-> << >>]

\* json.Unmarshal(data, &routes): an object or null decodes, an array does not
UnmarshalRoutes(doc) ==
    IF doc.kind = "object" THEN [ok |-> TRUE, routes |-> doc.value]
    ELSE IF doc.kind = "null" THEN [ok |-> TRUE, routes |-> EmptyRoutes]
    ELSE [ok |-> FALSE, routes |-> EmptyRoutes]

\* json.Unmarshal(data, &txRaw): an object or null decodes, an array does not
UnmarshalTxRaw(doc) ==
    IF doc.kind = "object" THEN [ok |-> TRUE, txRaw |-> doc.value]
    ELSE IF doc.kind = "null" THEN [ok |-> TRUE, txRaw |-> TxRaw(TxBody(TRUE, << >>))]
    ELSE [ok |-> FALSE, txRaw |-> TxRaw(TxBody(TRUE, << >>))]

NoResult == VerifyResult(FALSE, 0, 0, << >>)

\* Generator.GenerateFromFile
GenerateFromFile(multisigAddr, routesFile) ==
    LET r == UnmarshalRoutes(routesFile)
    IN  IF ~r.ok THEN [err |-> "parse_routes_file", msgs |-> << >>]
        ELSE Generate(multisigAddr, r.routes)

\* Verifier.VerifyFromFiles
VerifyFromFiles(routesFile, txFile) ==
    LET r == UnmarshalRoutes(routesFile)
        t == UnmarshalTxRaw(txFile)
    IN  IF ~r.ok THEN [err |-> "parse_routes_file", result |-> NoResult]
        ELSE IF ~t.ok THEN [err |-> "parse_transaction_file", result |-> NoResult]
        ELSE Verify(r.routes, t.txRaw)

(***************************************************************************)
(* pkg/types: ParseCustomHookMetadata and the whitelist                    *)
(***************************************************************************)
\* ParseCustomHookMetadata without the check of token_id
ParseCustomHookMetadata_NoTokenCheck(metadata) ==
    LET f == metadata.fields
        domain == DecodeUint32(f.destination_domain)
        recipient == DecodeString(f.recipient)
        tokenID == DecodeString(f.token_id)
        amount == DecodeString(f.amount)
        fail(e) == [err |-> e, routeInfo |-> NilRouteInfo]
    IN  IF metadata.kind # "object" THEN fail("json")
        ELSE IF ~(domain.ok /\ recipient.ok /\ tokenID.ok /\ amount.ok) THEN fail("json")
        ELSE IF domain.v = 0 THEN fail("destination_domain is required")
        ELSE IF recipient.v = << >> THEN fail("recipient is required")
        ELSE [err |-> "none",
              routeInfo |-> RouteInfo(domain.v, recipient.v, tokenID.v, amount.v)]

\* ParseCustomHookMetadata
ParseCustomHookMetadata(metadata) ==
    LET f == metadata.fields
        domain == DecodeUint32(f.destination_domain)
        recipient == DecodeString(f.recipient)
        tokenID == DecodeString(f.token_id)
        amount == DecodeString(f.amount)
        fail(e) == [err |-> e, routeInfo |-> NilRouteInfo]
    IN  IF metadata.kind # "object" THEN fail("json")
        ELSE IF ~(domain.ok /\ recipient.ok /\ tokenID.ok /\ amount.ok) THEN fail("json")
        ELSE IF domain.v = 0 THEN fail("destination_domain is required")
        ELSE IF recipient.v = << >> THEN fail("recipient is required")
        ELSE IF tokenID.v = << >> THEN fail("token_id is required")
        ELSE [err |-> "none",
              routeInfo |-> RouteInfo(domain.v, recipient.v, tokenID.v, amount.v)]

\* a nil *Config
NilConfig == [nil |-> TRUE]

\* normalizeAddress
normalizeAddress(addr) == ToLower(TrimSpace(addr))

\* LoadConfig with the normalization of lines 34-40 left out
LoadConfig_Raw(file) ==
    IF file.kind # "object" THEN [err |-> "json", config |-> NilConfig]
    ELSE [err |-> "none", config |-> [Whitelist |-> [Domains |-> file.Domains]]]

\* LoadConfig: the file is [kind, Domains], Domains a function from the
\* configured domains to their lists of addresses
LoadConfig(file) ==
    IF file.kind # "object" THEN [err |-> "json", config |-> NilConfig]
    ELSE [err |-> "none",
          config |-> [Whitelist |-> [Domains |->
              [d \in DOMAIN file.Domains |->
                  [i \in 1..Len(file.Domains[d]) |-> normalizeAddress(file.Domains[d][i])]]]]]

\* ValidateRoute with the search of lines 64-71 left out
ValidateRoute_DomainOnly(c, route) ==
    IF c = NilConfig THEN "config is nil"
    ELSE IF route.DestinationDomain \notin DOMAIN c.Whitelist.Domains THEN "not configured"
    ELSE IF Len(c.Whitelist.Domains[route.DestinationDomain]) = 0
    THEN "no whitelisted addresses"
    ELSE "none"

\* Config.ValidateRoute
ValidateRoute(c, route) ==
    IF c = NilConfig THEN "config is nil"
    ELSE IF route.DestinationDomain \notin DOMAIN c.Whitelist.Domains THEN "not configured"
    ELSE LET whitelistedAddresses == c.Whitelist.Domains[route.DestinationDomain]
         IN  IF Len(whitelistedAddresses) = 0 THEN "no whitelisted addresses"
             ELSE IF \E i \in 1..Len(whitelistedAddresses) :
                        normalizeAddress(route.Recipient) = whitelistedAddresses[i]
             THEN "none"
             ELSE "not whitelisted"

(***************************************************************************)
(* pkg/client                                                              *)
(*                                                                         *)
(* The chain is a function from heights to blocks; a block is the sequence *)
(* of its transaction responses, [TxHash, ok, Body]: ok says whether the   *)
(* response carries a transaction that decodes, Body is [Memo, Messages]   *)
(* or NilBody.                                                             *)
(***************************************************************************)
NilBody == [nil |-> TRUE]

TxResponse(hash, ok, body) == [TxHash |-> hash, ok |-> ok, Body |-> body]

Transaction(hash, height, memo, body) ==
    [Hash |-> hash, BlockHeight |-> height, Memo |-> memo, Body |-> body]

MsgSend(from, to, coins) == [FromAddress |-> from, ToAddress |-> to, Amount |-> coins]

\* the Limit of the one page GetTransactionsByHeight asks for at each height
PageLimit == 100

Min(a, b) == IF a < b THEN a ELSE b

\* GetTransactionsByHeight, lines 74-97: the transactions of one response
DecodeResponses(txResponses, height) ==
    LET decoded == SelectSeq(txResponses, LAMBDA txResp : txResp.ok)
        memo(txResp) == IF txResp.Body # NilBody THEN txResp.Body.Memo ELSE EmptyString
    IN  [i \in 1..Len(decoded) |->
            Transaction(decoded[i].TxHash, height, memo(decoded[i]), decoded[i].Body)]

\* Client.GetTransactionsByHeight; the query fails at height failAt (0: nowhere)
RECURSIVE GetTransactionsByHeight(_, _, _, _)
GetTransactionsByHeight(blocks, fromHeight, toHeight, failAt) ==
    IF fromHeight > toHeight THEN [err |-> "none", txs |-> << >>]
    ELSE IF fromHeight = failAt THEN [err |-> "query", txs |-> << >>]
    ELSE LET page == SubSeq(blocks[fromHeight], 1, Min(Len(blocks[fromHeight]), PageLimit))
             rest == GetTransactionsByHeight(blocks, fromHeight + 1, toHeight, failAt)
         IN  IF rest.err # "none" THEN rest
             ELSE [err |-> "none", txs |-> DecodeResponses(page, fromHeight) \o rest.txs]

HyperlaneTransfer(from, to, amount, domain, tokenID, metadata) ==
    [From |-> from, To |-> to, Amount |-> amount, DestinationDomain |-> domain,
     TokenID |-> tokenID, CustomHookMetadata |-> metadata]

\* ExtractHyperlaneTransfers, lines 184-192: the memo as routing metadata, when
\* it is JSON that decodes into RoutingMetadata
RoutingMetaOf(memo) ==
    LET domain == DecodeUint32(memo.fields.destination_domain)
        recipient == DecodeString(memo.fields.recipient)
        tokenID == DecodeString(memo.fields.token_id)
    IN  IF memo.kind = "object" /\ domain.ok /\ recipient.ok /\ tokenID.ok
        THEN [nil |-> FALSE, DestinationDomain |-> domain.v, Recipient |-> recipient.v,
              TokenID |-> tokenID.v]
        ELSE [nil |-> TRUE]

\* ExtractHyperlaneTransfers, lines 194-241: the transfers of one message
TransfersOfMsg(anyMsg, routingMeta) ==
    LET msg == anyMsg.Value.msg
    IN  IF anyMsg.TypeUrl = TypeRemoteTransfer
        THEN IF ~anyMsg.Value.ok THEN << >>
             ELSE << HyperlaneTransfer(msg.Sender,
                                       << "0", "x" >> \o SprintfHex(msg.Recipient),
                                       IntToStr(msg.Amount), msg.DestinationDomain,
                                       << "0", "x" >> \o SprintfHex(msg.TokenId),
                                       msg.CustomHookMetadata) >>
        ELSE IF anyMsg.TypeUrl = TypeSend /\ ~routingMeta.nil
        THEN IF ~anyMsg.Value.ok \/ Len(msg.Amount) = 0 THEN << >>
             ELSE << HyperlaneTransfer(msg.ToAddress, routingMeta.Recipient,
                                       IntToStr(msg.Amount[1].Amount),
                                       routingMeta.DestinationDomain,
                                       routingMeta.TokenID, EmptyString) >>
        ELSE << >>

RECURSIVE TransfersOfMsgs(_, _)
TransfersOfMsgs(messages, routingMeta) ==
    IF messages = << >> THEN << >>
    ELSE TransfersOfMsg(Head(messages), routingMeta)
             \o TransfersOfMsgs(Tail(messages), routingMeta)

\* ExtractHyperlaneTransfers giving up on a transaction whose memo is not
\* routing metadata
ExtractHyperlaneTransfers_MemoFatal(txn) ==
    IF txn.Body = NilBody THEN << >>
    ELSE IF txn.Memo # EmptyString /\ RoutingMetaOf(txn.Memo).nil THEN << >>
    ELSE TransfersOfMsgs(txn.Body.Messages,
                         IF txn.Memo # EmptyString THEN RoutingMetaOf(txn.Memo)
                                                   ELSE [nil |-> TRUE])

\* ExtractHyperlaneTransfers
ExtractHyperlaneTransfers(txn) ==
    IF txn.Body = NilBody THEN << >>
    ELSE TransfersOfMsgs(txn.Body.Messages,
                         IF txn.Memo # EmptyString THEN RoutingMetaOf(txn.Memo)
                                                   ELSE [nil |-> TRUE])

\* FilterHyperlaneTransfersToAddress, lines 250-265: the target as 32-byte hex
TargetHex(targetAddress) ==
    LET acc == AccAddressFromBech32(targetAddress)
        hex == << "0", "x" >> \o SprintfHex(acc.bytes)
    IN  IF HasPrefix(targetAddress, << "0", "x" >>) THEN targetAddress
        ELSE IF ~acc.ok THEN << >>
        ELSE IF Len(hex) < 66
             THEN << "0", "x" >> \o [i \in 1..(66 - Len(hex)) |-> "0"] \o SubSeq(hex, 3, Len(hex))
             ELSE hex

\* lines 273-285 comparing the recipient of the transfer only
TransferToAddress_ToOnly(transfer, targetAddress, targetHex) ==
    LET transferTo == ToLower(transfer.To)
        target == ToLower(targetHex)
        targetBech32 == ToLower(targetAddress)
    IN  transferTo = target \/ transferTo = targetBech32

\* FilterHyperlaneTransfersToAddress, lines 273-285: a transfer that keeps its transaction
TransferToAddress(transfer, targetAddress, targetHex) ==
    LET transferTo == ToLower(transfer.To)
        transferFrom == ToLower(transfer.From)
        target == ToLower(targetHex)
        targetBech32 == ToLower(targetAddress)
    IN  transferTo = target \/ transferFrom = targetBech32 \/ transferTo = targetBech32

\* FilterHyperlaneTransfersToAddress: targetHex is computed once, before the loop
FilterHyperlaneTransfersToAddress(txs, targetAddress) ==
    CHOOSE filtered \in
        { SelectSeq(txs, LAMBDA txn :
              LET transfers == ExtractHyperlaneTransfers(txn)
              IN  \E i \in 1..Len(transfers) :
                      TransferToAddress(transfers[i], targetAddress, targetHex)) :
          targetHex \in { TargetHex(targetAddress) } } : TRUE

(***************************************************************************)
(* pkg/parser                                                              *)
(***************************************************************************)
\* ParseRoutes, lines 434-457: the routing information of a transfer
ResolveRouteInfo(transfer) ==
    LET parsed == ParseCustomHookMetadata(transfer.CustomHookMetadata)
    IN  IF transfer.CustomHookMetadata # EmptyString
        THEN IF parsed.err # "none"
             THEN [skip |-> "invalid custom_hook_metadata", routeInfo |-> NilRouteInfo]
             ELSE [skip |-> "none", routeInfo |-> parsed.routeInfo]
        ELSE IF transfer.DestinationDomain # 0
        THEN [skip |-> "none",
              routeInfo |-> RouteInfo(transfer.DestinationDomain, transfer.To,
                                      transfer.TokenID, << >>)]
        ELSE [skip |-> "no routing information", routeInfo |-> NilRouteInfo]

\* ParseRoutes with lines 469-471 left out: the amount transferred, always
RouteAmount_Native(transfer, routeInfo) == transfer.Amount

\* ParseRoutes, lines 467-471: the amount of the route
RouteAmount(transfer, routeInfo) ==
    IF routeInfo.Amount # << >> THEN routeInfo.Amount ELSE transfer.Amount

\* ParseRoutes, lines 485-489: the total after a route of this amount
AddToTotal(total, amount) ==
    IF NewIntFromString(amount).ok THEN total + NewIntFromString(amount).val ELSE total

Warn(acc, tx, what) ==
    [acc EXCEPT !.warnings = Append(@, [tx |-> tx.Hash, what |-> what])]

\* the body of the loop without lines 430-432: a transfer of any sender
ProcessTransfer_AnySender(acc, tx, transfer, multisigAddr, config) ==
    LET resolved == ResolveRouteInfo(transfer)
        routeInfo == resolved.routeInfo
        amount == RouteAmount(transfer, routeInfo)
        route == HyperlaneRoute(tx.Hash, tx.BlockHeight, transfer.From, amount,
                                transfer.CustomHookMetadata, routeInfo)
    IN  IF resolved.skip # "none" THEN Warn(acc, tx, resolved.skip)
        ELSE IF config # NilConfig /\ ValidateRoute(config, routeInfo) # "none"
        THEN Warn(acc, tx, "failed whitelist validation")
        ELSE [acc EXCEPT !.routes = Append(@, route),
                         !.total = AddToTotal(@, amount)]

\* ParseRoutes, lines 428-489: the body of the loop over the transfers
ProcessTransfer(acc, tx, transfer, multisigAddr, config) ==
    LET resolved == ResolveRouteInfo(transfer)
        routeInfo == resolved.routeInfo
        amount == RouteAmount(transfer, routeInfo)
        route == HyperlaneRoute(tx.Hash, tx.BlockHeight, transfer.From, amount,
                                transfer.CustomHookMetadata, routeInfo)
    IN  IF transfer.From # multisigAddr THEN acc
        ELSE IF resolved.skip # "none" THEN Warn(acc, tx, resolved.skip)
        ELSE IF config # NilConfig /\ ValidateRoute(config, routeInfo) # "none"
        THEN Warn(acc, tx, "failed whitelist validation")
        ELSE [acc EXCEPT !.routes = Append(@, route),
                         !.total = AddToTotal(@, amount)]

\* the loop over the transfers of a transaction, last transfer first
RECURSIVE ProcessTransfers_LastFirst(_, _, _, _, _)
ProcessTransfers_LastFirst(acc, tx, transfers, multisigAddr, config) ==
    IF transfers = << >> THEN acc
    ELSE ProcessTransfer(ProcessTransfers_LastFirst(acc, tx, Tail(transfers),
                                                    multisigAddr, config),
                         tx, Head(transfers), multisigAddr, config)

\* ParseRoutes, lines 428-489: the loop over the transfers of a transaction
RECURSIVE ProcessTransfers(_, _, _, _, _)
ProcessTransfers(acc, tx, transfers, multisigAddr, config) ==
    IF transfers = << >> THEN acc
    ELSE ProcessTransfers(ProcessTransfer(acc, tx, Head(transfers), multisigAddr, config),
                          tx, Tail(transfers), multisigAddr, config)

\* ParseRoutes, lines 420-491: the loop over the filtered transactions, in
\* their order: the first half of them, then the second half
RECURSIVE ProcessTxs(_, _, _, _)
ProcessTxs(acc, txs, multisigAddr, config) ==
    IF txs = << >> THEN acc
    ELSE IF Len(txs) = 1
    THEN ProcessTransfers(acc, txs[1], ExtractHyperlaneTransfers(txs[1]),
                          multisigAddr, config)
    ELSE LET half == Len(txs) \div 2
         IN  \* first is the accumulator after the first half, as a value
             CHOOSE out \in { ProcessTxs(first, SubSeq(txs, half + 1, Len(txs)),
                                         multisigAddr, config) :
                                 first \in { ProcessTxs(acc, SubSeq(txs, 1, half),
                                                        multisigAddr, config) } } : TRUE

\* ParseRoutes that treats a skipped message as fatal
ParseRoutes_Fatal(config, blocks, multisigAddr, fromHeight, toHeight, failAt) ==
    LET got == GetTransactionsByHeight(blocks, fromHeight, toHeight, failAt)
        filtered == FilterHyperlaneTransfersToAddress(got.txs, multisigAddr)
        acc == ProcessTxs([routes |-> << >>, total |-> 0, warnings |-> << >>],
                          filtered, multisigAddr, config)
    IN  IF got.err # "none"
        THEN [err |-> "failed to query transactions", routes |-> EmptyRoutes,
              warnings |-> << >>]
        ELSE IF acc.warnings # << >>
        THEN [err |-> "failed to parse transfer", routes |-> EmptyRoutes,
              warnings |-> acc.warnings]
        ELSE [err |-> "none",
              routes |-> [Routes |-> acc.routes, TotalAmount |-> IntToStr(acc.total),
                          MultisigAddr |-> multisigAddr],
              warnings |-> acc.warnings]

\* Parser.ParseRoutes, of a parser with this config on a chain with these blocks
ParseRoutes(config, blocks, multisigAddr, fromHeight, toHeight, failAt) ==
    LET got == GetTransactionsByHeight(blocks, fromHeight, toHeight, failAt)
        filtered == FilterHyperlaneTransfersToAddress(got.txs, multisigAddr)
        acc == ProcessTxs([routes |-> << >>, total |-> 0, warnings |-> << >>],
                          filtered, multisigAddr, config)
    IN  IF got.err # "none"
        THEN [err |-> "failed to query transactions", routes |-> EmptyRoutes,
              warnings |-> << >>]
        ELSE [err |-> "none",
              routes |-> [Routes |-> acc.routes, TotalAmount |-> IntToStr(acc.total),
                          MultisigAddr |-> multisigAddr],
              warnings |-> acc.warnings]

(***************************************************************************)
(* The values the inputs are drawn from                                    *)
(***************************************************************************)
Hex0x(b) == << "0", "x" >> \o SprintfHex(b)

Hex0xUpper(b) == << "0", "x" >> \o ToUpper(SprintfHex(b))

Pad32(b) == Zeros(HexAddressLen - Len(b)) \o b

\* every second letter in upper case
MixedCase(s) == [i \in 1..Len(s) |-> IF i % 2 = 0 THEN ToUpperCh(s[i]) ELSE s[i]]

\* 20-byte addresses: two EVM recipients, the multisig account, another account
AddrA == [i \in 1..20 |-> IF i % 2 = 1 THEN 171 ELSE 205]

AddrB == [i \in 1..20 |-> 17]

MultisigBytes == [i \in 1..20 |-> 34]

OtherBytes == [i \in 1..20 |-> 51]

\* an address of 33 bytes, one more than a util.HexAddress holds
AddrLong == [i \in 1..33 |-> 68]

Multisig == Bech32Encode(MultisigBytes)

OtherAccount == Bech32Encode(OtherBytes)

\* a 32-byte token id
Token32 == [i \in 1..32 |-> IF i % 2 = 1 THEN 18 ELSE 239]

TokenStr == Hex0x(Token32)

\* a whitelist file: domain 1 lists AddrA in upper case between spaces,
\* domain 2 is configured with an empty list, no other domain is configured
WhitelistFile ==
    [kind |-> "object",
     Domains |-> [d \in {1, 2} |->
                    IF d = 1 THEN << << " " >> \o Hex0xUpper(AddrA) \o << " " >> >>
                             ELSE << >>]]

ParserConfigs == {NilConfig, LoadConfig(WhitelistFile).config}

RemoteTransferTx(hash, sender, recipient, domain, amount, metadata) ==
    TxResponse(hash, TRUE,
               [Memo |-> EmptyString,
                Messages |-> << AnyMsg(TypeRemoteTransfer, TRUE,
                                       MsgRemoteTransfer(sender, Token32, domain, recipient,
                                                         amount, metadata)) >>])

\* a transfer of the multisig with routing metadata, no amount override
TxValid(h) ==
    RemoteTransferTx(<< "valid", h >>, Multisig, Pad32(AddrB), 9, 5,
                     JObject(JNum(1), JStr(Hex0xUpper(AddrA)), JStr(TokenStr), JAbsent))

\* custom_hook_metadata that is not JSON
TxBadMeta(h) ==
    RemoteTransferTx(<< "badmeta", h >>, Multisig, Pad32(AddrB), 9, 3, InvalidJSON)

\* an amount override that differs from the amount transferred
TxOverride(h) ==
    RemoteTransferTx(<< "override", h >>, Multisig, Pad32(AddrB), 9, 5,
                     JObject(JNum(1), JStr(Hex0x(AddrA)), JStr(TokenStr), JStr(<< "7" >>)))

\* an amount override that is no number, to a domain with an empty whitelist
TxBadAmount(h) ==
    RemoteTransferTx(<< "badamount", h >>, Multisig, Pad32(AddrB), 9, 4,
                     JObject(JNum(2), JStr(Hex0x(AddrB)), JStr(TokenStr), JStr(<< "x" >>)))

\* metadata without destination_domain
TxMissingField(h) ==
    RemoteTransferTx(<< "missing", h >>, Multisig, Pad32(AddrB), 9, 2,
                     JObject(JAbsent, JStr(Hex0x(AddrA)), JStr(TokenStr), JAbsent))

\* metadata naming a recipient the whitelist of its domain does not list
TxNotWhitelisted(h) ==
    RemoteTransferTx(<< "notlisted", h >>, Multisig, Pad32(AddrB), 9, 6,
                     JObject(JNum(1), JStr(Hex0x(AddrB)), JStr(TokenStr), JAbsent))

\* metadata naming a domain the whitelist does not configure
TxUnknownDomain(h) ==
    RemoteTransferTx(<< "unknown", h >>, Multisig, Pad32(AddrB), 9, 8,
                     JObject(JNum(3), JStr(Hex0x(AddrA)), JStr(TokenStr), JAbsent))

\* a transfer another account sent to the multisig, with routing metadata
TxInbound(h) ==
    RemoteTransferTx(<< "inbound", h >>, OtherAccount, Pad32(MultisigBytes), 9, 6,
                     JObject(JNum(1), JStr(Hex0x(AddrA)), JStr(TokenStr), JAbsent))

\* a transfer the multisig sent without metadata, as Generate writes them
TxOwnOutbound(h) ==
    RemoteTransferTx(<< "outbound", h >>, Multisig, Pad32(AddrA), 1, 5, EmptyString)

\* a bank send to the multisig whose memo carries the routing
TxBank(h) ==
    TxResponse(<< "bank", h >>, TRUE,
               [Memo |-> JObject(JNum(1), JStr(Hex0x(AddrA)), JStr(TokenStr), JAbsent),
                Messages |-> << AnyMsg(TypeSend, TRUE,
                                       MsgSend(OtherAccount, Multisig,
                                               << [Denom |-> "utia", Amount |-> 8] >>)) >>])

\* a bank send to the multisig whose memo names a destination domain only
TxBankBare(h) ==
    TxResponse(<< "bankbare", h >>, TRUE,
               [Memo |-> JObject(JNum(1), JAbsent, JAbsent, JAbsent),
                Messages |-> << AnyMsg(TypeSend, TRUE,
                                       MsgSend(OtherAccount, Multisig,
                                               << [Denom |-> "utia", Amount |-> 2] >>)) >>])

\* a response whose transaction does not decode, and one without a body
TxUndecodable(h) == TxResponse(<< "undecodable", h >>, FALSE, NilBody)

TxNoBody(h) == TxResponse(<< "nobody", h >>, TRUE, NilBody)

BlockPool(h) ==
    { << >>,
      << TxValid(h) >>,
      << TxBadMeta(h) >>,
      << TxOverride(h) >>,
      << TxValid(h), TxBadMeta(h), TxOverride(h) >>,
      << TxMissingField(h), TxNotWhitelisted(h), TxUnknownDomain(h) >>,
      << TxUndecodable(h), TxBadAmount(h), TxNoBody(h) >>,
      << TxInbound(h), TxOwnOutbound(h), TxBank(h), TxBankBare(h) >> }

\* blocks for the scan: a transaction whose memo is no JSON, with a bank
\* send to the multisig and a transfer of the multisig, followed by a
\* transfer of the multisig, one between other accounts and one another
\* account sent to the multisig; two transactions with a routing memo, one
\* with a bank send and two transfers (the second with metadata that is no
\* JSON), one with a transfer and a bank send of two coins, the first not
\* utia; at the first height a block of one transaction more than a page
\* holds, at the others an empty block
ScanBlockPool(h) ==
    LET remote(amount, metadata) ==
            AnyMsg(TypeRemoteTransfer, TRUE,
                   MsgRemoteTransfer(Multisig, Token32, 9, Pad32(AddrB), amount, metadata))
        send(coins) == AnyMsg(TypeSend, TRUE, MsgSend(OtherAccount, Multisig, coins))
        routing == JObject(JNum(1), JStr(Hex0x(AddrA)), JStr(TokenStr), JAbsent)
    IN  { << TxResponse(<< "badmemo", h >>, TRUE,
                        [Memo |-> InvalidJSON,
                         Messages |-> << send(<< [Denom |-> "utia", Amount |-> 8] >>),
                                         remote(5, routing) >>]),
             TxValid(h),
             RemoteTransferTx(<< "foreign", h >>, OtherAccount, Pad32(AddrB), 9, 4, routing),
             TxInbound(h) >>,
          << TxResponse(<< "memo", h >>, TRUE,
                        [Memo |-> routing,
                         Messages |-> << send(<< [Denom |-> "utia", Amount |-> 8] >>),
                                         remote(5, routing),
                                         remote(3, InvalidJSON) >>]),
             TxResponse(<< "coins", h >>, TRUE,
                        [Memo |-> routing,
                         Messages |-> << remote(6, routing),
                                         send(<< [Denom |-> "uatom", Amount |-> 4],
                                                 [Denom |-> "utia", Amount |-> 2] >>) >>]) >>,
          IF h = 1
          THEN [i \in 1..(PageLimit + 1) |->
                   RemoteTransferTx(<< "bulk", h, i >>, Multisig, Pad32(AddrB), 9, i, routing)]
          ELSE << >> }

\* the heights of the chain
MaxHeight == 2

Heights == 1..MaxHeight

Chains == {b \in [Heights -> UNION {BlockPool(h) : h \in Heights}] :
              \A h \in Heights : b[h] \in BlockPool(h)}

\* the sequences of at most n elements of S
SeqsUpTo(S, n) == UNION {[1..k -> S] : k \in 0..n}

\* routes as a routes file may hold them: amounts in and out of canonical form,
\* with and without an override, recipients in hex and bech32 of several
\* lengths and cases, token ids of several spellings, two domains
RouteAmounts == { << "5" >>, << "0", "5" >>, << "+", "5" >>, << "x" >>, IntToStr(1000000) }

AmountOverrides == { << >>, << "7" >>, << "x" >>, IntToStr(500000) }

RouteDomains == { 137, 1380012617 }

RouteRecipients ==
    { Hex0x(AddrA), Hex0xUpper(AddrA), Hex0x(Pad32(AddrA)), Hex0x(AddrLong),
      << "0", "x", "z", "z" >>, << "0", "X" >> \o SprintfHex(Pad32(AddrA)),
      SprintfHex(Pad32(AddrA)),
      Bech32Encode(AddrB), ToUpper(Bech32Encode(AddrB)), Bech32Encode(AddrLong) }

RouteTokenIDs == { TokenStr, Hex0xUpper(Token32), SprintfHex(Token32), Hex0x(AddrA) }

RouteInfos ==
    {NilRouteInfo} \cup
    { RouteInfo(d, r, t, a) : d \in RouteDomains, r \in RouteRecipients,
                              t \in RouteTokenIDs, a \in AmountOverrides }

RoutePool ==
    { HyperlaneRoute(<< "tx" >>, 1, Multisig, a, EmptyString, ri) :
        a \in RouteAmounts, ri \in RouteInfos }

\* messages a transaction may carry for such a route
CandidateMsgs ==
    { MsgRemoteTransfer(Multisig, t, d, r, a, EmptyString) :
        t \in {Token32, Zeros(TokenIDLen)}, d \in RouteDomains,
        r \in {Pad32(AddrA), Pad32(AddrB)}, a \in {5, 7} }

\* the routes and the messages Verify is run on: two routes of different
\* transactions with the same routing, a route to another domain, a route
\* without routing information, a route whose bech32 recipient is too long
VerifyRoute1 ==
    HyperlaneRoute(<< "tx1" >>, 1, Multisig, << "5" >>, EmptyString,
                   RouteInfo(137, Hex0x(AddrA), TokenStr, << >>))

VerifyRoute2 == [VerifyRoute1 EXCEPT !.TxHash = << "tx2" >>, !.BlockHeight = 2]

VerifyRoute3 ==
    HyperlaneRoute(<< "tx3" >>, 2, Multisig, << "7" >>, EmptyString,
                   RouteInfo(1380012617, Bech32Encode(AddrB), TokenStr, << >>))

VerifyRouteNil ==
    HyperlaneRoute(<< "tx4" >>, 2, Multisig, << "5" >>, EmptyString, NilRouteInfo)

VerifyRouteLong ==
    HyperlaneRoute(<< "tx5" >>, 2, Multisig, << "5" >>, EmptyString,
                   RouteInfo(137, Bech32Encode(AddrLong), TokenStr, << >>))

VerifyRoutePool == { VerifyRoute1, VerifyRoute2, VerifyRoute3, VerifyRouteNil, VerifyRouteLong }

VerifyMsgPool ==
    { AnyMsg(TypeRemoteTransfer, TRUE, GenerateMsg(Multisig, VerifyRoute1).msg),
      AnyMsg(TypeRemoteTransfer, TRUE, GenerateMsg(OtherAccount, VerifyRoute3).msg),
      AnyMsg(TypeRemoteTransfer, TRUE,
             MsgRemoteTransfer(Multisig, Token32, 137, Pad32(AddrB), 9, EmptyString)),
      AnyMsg(TypeRemoteTransfer, FALSE, << >>),
      AnyMsg(TypeSend, TRUE, MsgSend(Multisig, OtherAccount,
                                     << [Denom |-> "utia", Amount |-> 5] >>)) }

MaxRoutes == 2

MaxMsgs == 2

VerifyRoutesFiles ==
    { MarshalRoutes([Routes |-> rs, TotalAmount |-> << "0" >>, MultisigAddr |-> Multisig]) :
        rs \in SeqsUpTo(VerifyRoutePool, MaxRoutes) }

VerifyTxFiles ==
    { MarshalTxRaw(TxRaw(TxBody(TRUE, ms))) : ms \in SeqsUpTo(VerifyMsgPool, MaxMsgs) }
        \cup { MarshalTxRaw(TxRaw(TxBody(FALSE, << >>))) }

\* the routes Generate is run on: two that generate, to different domains
\* and recipients, one without routing information, one whose recipient is
\* too long, and one each with an amount, a token id and a recipient that
\* do not parse; the routes file names the multisig or another account
GenerateRoutePool ==
    { VerifyRoute1, VerifyRoute3, VerifyRouteNil, VerifyRouteLong,
      [VerifyRoute1 EXCEPT !.Amount = << "x" >>],
      [VerifyRoute1 EXCEPT !.RouteInfo.TokenID = Hex0x(AddrA)],
      [VerifyRoute1 EXCEPT !.RouteInfo.Recipient = << "0", "x", "z", "z" >>] }

GenerateRoutesFiles ==
    { MarshalRoutes([Routes |-> rs, TotalAmount |-> << "0" >>, MultisigAddr |-> m]) :
        rs \in SeqsUpTo(GenerateRoutePool, MaxRoutes), m \in {Multisig, OtherAccount} }

\* byte strings of n bytes, in two patterns
BytesOf(n) ==
    { [i \in 1..n |-> IF i % 2 = 1 THEN 18 ELSE 239], [i \in 1..n |-> 171] }

\* token id strings: hex of 0 to 33 bytes in either letter case, with and
\* without 0x or 0X, as written or followed by an odd digit or by a letter
\* that is no hex digit
TokenIDStrings ==
    { pre \o body \o post :
        pre \in { << >>, << "0", "x" >>, << "0", "X" >> },
        body \in UNION { { SprintfHex(b), ToUpper(SprintfHex(b)) } :
                           b \in UNION { BytesOf(n) : n \in {0, 1, 20, 31, 32, 33} } },
        post \in { << >>, << "0" >>, << "g" >> } }

\* an address of some bytes written as 0x-hex or bech32, in either letter case
AddressString(b, form) ==
    CASE form = "hex" -> Hex0x(b)
      [] form = "HEX" -> Hex0xUpper(b)
      [] form = "bech32" -> Bech32Encode(b)
      [] form = "BECH32" -> ToUpper(Bech32Encode(b))

AddressArgs ==
    { [fn |-> "parseAndPadAddress", bytes |-> b, form |-> f, s |-> AddressString(b, f)] :
        b \in UNION { BytesOf(n) : n \in {0, 1, 20, 32, 33} },
        f \in {"hex", "HEX", "bech32", "BECH32"} }

\* custom_hook_metadata: the empty string, a text that is no JSON, and
\* objects with each field absent, of its type (zero or empty, or not) or
\* of another type
MetadataDocs ==
    { EmptyString, InvalidJSON } \cup
    { JObject(d, r, t, a) :
        d \in { JAbsent, JNum(0), JNum(1), JNum(0 - 1), JStr(<< "1" >>) },
        r \in { JAbsent, JStr(<< >>), JStr(Hex0x(AddrA)), JNum(5) },
        t \in { JAbsent, JStr(<< >>), JStr(TokenStr), JNum(5) },
        a \in { JAbsent, JStr(<< >>), JStr(<< "7" >>), JNum(7) } }

CodecArgs ==
    { [fn |-> "parseTokenID", s |-> t] : t \in TokenIDStrings }
        \cup AddressArgs
        \cup { [fn |-> "ParseCustomHookMetadata", doc |-> m] : m \in MetadataDocs }

\* whitelist files: a text that is not JSON, and objects that configure some
\* of two domains with lists written in several cases
WhitelistLists ==
    { << >>,
      << Hex0x(AddrA) >>,
      << << " " >> \o Hex0xUpper(AddrA) \o << " " >> >>,
      << Hex0x(AddrB), MixedCase(Hex0x(AddrA)) >> }

WhitelistDomains == { 137, 2340 }

WhitelistFiles ==
    { [kind |-> "invalid", Domains |-> << >>] } \cup
    { [kind |-> "object", Domains |-> f] :
        f \in UNION { [D -> WhitelistLists] : D \in SUBSET WhitelistDomains } }

WhitelistRoutes ==
    { HyperlaneRoute(<< "tx" >>, 1, Multisig, << "5" >>, EmptyString,
                     RouteInfo(d, r, TokenStr, << >>)) :
        d \in WhitelistDomains \cup {1},
        r \in { Hex0x(AddrA), Hex0xUpper(AddrA), Hex0x(AddrB),
                << "\t" >> \o MixedCase(Hex0x(AddrA)) \o << " " >> } }

(***************************************************************************)
(* The state: the position of the run (pc), the chain and the parser's     *)
(* config, what each command returned and the files it wrote, and, for     *)
(* the functions run on their own, their arguments and results.            *)
(***************************************************************************)
VARIABLES pc, blocks, config, parseOut, routesFile, genOut, txFile, verifyOut,
          route, candidate, matches, whitelistFile, validateErr, arg, ret

vars == << pc, blocks, config, parseOut, routesFile, genOut, txFile, verifyOut,
           route, candidate, matches, whitelistFile, validateErr, arg, ret >>

Unset == [unset |-> TRUE]

(***************************************************************************)
(* The commands, one after the other: parse, generate, verify              *)
(***************************************************************************)
Init ==
    /\ pc = "start"
    /\ blocks \in Chains
    /\ config \in ParserConfigs
    /\ parseOut = Unset
    /\ routesFile = Unset
    /\ genOut = Unset
    /\ txFile = Unset
    /\ verifyOut = Unset
    /\ route = Unset
    /\ candidate = Unset
    /\ matches = Unset
    /\ whitelistFile = Unset
    /\ validateErr = Unset
    /\ arg = Unset
    /\ ret = Unset

\* the parse command: ParseRoutes, then the routes written to the routes file
ParseCmd ==
    /\ pc = "start"
    /\ \E fromHeight \in Heights, toHeight \in Heights, failAt \in {0} \cup Heights :
          /\ fromHeight <= toHeight
          /\ \E out \in {ParseRoutes(config, blocks, Multisig, fromHeight, toHeight, failAt)} :
              /\ parseOut' = [fromHeight |-> fromHeight, toHeight |-> toHeight,
                              queryFailed |-> failAt \in fromHeight..toHeight,
                              err |-> out.err, routes |-> out.routes,
                              warnings |-> out.warnings]
              /\ routesFile' = IF out.err = "none" THEN MarshalRoutes(out.routes)
                                                   ELSE routesFile
              /\ pc' = IF out.err = "none" THEN "parsed" ELSE "parse_failed"
    /\ UNCHANGED << blocks, config, genOut, txFile, verifyOut,
                    route, candidate, matches, whitelistFile, validateErr,
                    arg, ret >>

\* the generate command: GenerateFromFile, then the messages written to a file
GenerateCmd ==
    /\ pc = "parsed"
    /\ \E out \in {GenerateFromFile(Multisig, routesFile)} :
           /\ genOut' = out
           /\ txFile' = IF out.err = "none" THEN MarshalMsgs(out.msgs) ELSE txFile
           /\ pc' = IF out.err = "none" THEN "generated" ELSE "generate_failed"
    /\ UNCHANGED << blocks, config, parseOut, routesFile, verifyOut,
                    route, candidate, matches, whitelistFile, validateErr,
                    arg, ret >>

\* the verify command on the routes file and the file the generate command wrote
VerifyCmd ==
    /\ pc = "generated"
    /\ verifyOut' = VerifyFromFiles(routesFile, txFile)
    /\ pc' = "verified"
    /\ UNCHANGED << blocks, config, parseOut, routesFile, genOut, txFile,
                    route, candidate, matches, whitelistFile, validateErr,
                    arg, ret >>

\* the operator wraps the generated messages in a transaction, its file a tx.TxRaw
AssembleTx ==
    /\ pc = "generated"
    /\ txFile' = MarshalTxRaw(TxRaw(TxBody(TRUE,
                    [i \in 1..Len(genOut.msgs) |->
                        AnyMsg(TypeRemoteTransfer, TRUE, genOut.msgs[i])])))
    /\ pc' = "assembled"
    /\ UNCHANGED << blocks, config, parseOut, routesFile, genOut, verifyOut,
                    route, candidate, matches, whitelistFile, validateErr,
                    arg, ret >>

\* the verify command on the routes file and a transaction file
VerifyTx ==
    /\ pc = "assembled"
    /\ verifyOut' = VerifyFromFiles(routesFile, txFile)
    /\ pc' = "verified_tx"
    /\ UNCHANGED << blocks, config, parseOut, routesFile, genOut, txFile,
                    route, candidate, matches, whitelistFile, validateErr,
                    arg, ret >>

Next == ParseCmd \/ GenerateCmd \/ VerifyCmd \/ AssembleTx \/ VerifyTx

Spec == Init /\ [][Next]_vars

(***************************************************************************)
(* The scan of a chain: the query of the transactions, and the parse       *)
(* command, on blocks of transactions with several messages                *)
(***************************************************************************)
InitScan ==
    /\ pc = "start"
    /\ blocks \in [Heights -> UNION {ScanBlockPool(h) : h \in Heights}]
    /\ \A h \in Heights : blocks[h] \in ScanBlockPool(h)
    /\ config \in ParserConfigs
    /\ parseOut = Unset
    /\ routesFile = Unset
    /\ genOut = Unset
    /\ txFile = Unset
    /\ verifyOut = Unset
    /\ route = Unset
    /\ candidate = Unset
    /\ matches = Unset
    /\ whitelistFile = Unset
    /\ validateErr = Unset
    /\ arg = Unset
    /\ ret = Unset

\* a call of GetTransactionsByHeight on the chain
QueryCmd ==
    /\ pc = "start"
    /\ \E fromHeight \in Heights, toHeight \in Heights, failAt \in {0} \cup Heights :
          /\ fromHeight <= toHeight
          /\ arg' = [fromHeight |-> fromHeight, toHeight |-> toHeight,
                     queryFailed |-> failAt \in fromHeight..toHeight]
          /\ ret' = GetTransactionsByHeight(blocks, fromHeight, toHeight, failAt)
    /\ pc' = "queried"
    /\ UNCHANGED << blocks, config, parseOut, routesFile, genOut, txFile, verifyOut,
                    route, candidate, matches, whitelistFile, validateErr >>

NextScan == QueryCmd \/ ParseCmd

SpecScan == InitScan /\ [][NextScan]_vars

(***************************************************************************)
(* Generate and MatchesRoute on one route                                  *)
(***************************************************************************)
InitRoute ==
    /\ pc = "start"
    /\ route \in RoutePool
    /\ blocks = Unset
    /\ config = Unset
    /\ parseOut = Unset
    /\ routesFile = Unset
    /\ genOut = Unset
    /\ txFile = Unset
    /\ verifyOut = Unset
    /\ candidate = Unset
    /\ matches = Unset
    /\ whitelistFile = Unset
    /\ validateErr = Unset
    /\ arg = Unset
    /\ ret = Unset

\* a call of MatchesRoute: what it returns, or the panic it ends in
MatchOutcome(msg, r) ==
    IF MatchesRoutePanics(msg, r) THEN "panic"
    ELSE IF MatchesRoute(msg, r) THEN "true" ELSE "false"

\* Generate on the routes that hold this one route
GenerateRoute ==
    /\ pc = "start"
    /\ genOut' = Generate(Multisig, [Routes |-> << route >>, TotalAmount |-> route.Amount,
                                     MultisigAddr |-> Multisig])
    /\ pc' = IF genOut'.err = "none" THEN "generated" ELSE "generate_failed"
    /\ UNCHANGED << blocks, config, parseOut, routesFile, txFile, verifyOut,
                    route, candidate, matches, whitelistFile, validateErr,
                    arg, ret >>

\* MatchesRoute on the message generated from the route and the route
MatchGenerated ==
    /\ pc = "generated"
    /\ candidate' = genOut.msgs[1]
    /\ matches' = MatchOutcome(genOut.msgs[1], route)
    /\ pc' = "matched"
    /\ UNCHANGED << blocks, config, parseOut, routesFile, genOut, txFile, verifyOut,
                    route, whitelistFile, validateErr,
                    arg, ret >>

\* MatchesRoute on some message and the route (a route without routing
\* information is never passed to it: Verify skips such a route)
MatchCandidate ==
    /\ pc = "start"
    /\ route.RouteInfo # NilRouteInfo
    /\ \E msg \in CandidateMsgs :
          /\ candidate' = msg
          /\ matches' = MatchOutcome(msg, route)
    /\ pc' = "compared"
    /\ UNCHANGED << blocks, config, parseOut, routesFile, genOut, txFile, verifyOut,
                    route, whitelistFile, validateErr,
                    arg, ret >>

NextRoute == GenerateRoute \/ MatchGenerated \/ MatchCandidate

SpecRoute == InitRoute /\ [][NextRoute]_vars

(***************************************************************************)
(* Verify on routes and transactions of any shape                          *)
(***************************************************************************)
InitVerify ==
    /\ pc = "assembled"
    /\ routesFile \in VerifyRoutesFiles
    /\ txFile \in VerifyTxFiles
    /\ blocks = Unset
    /\ config = Unset
    /\ parseOut = Unset
    /\ genOut = Unset
    /\ verifyOut = Unset
    /\ route = Unset
    /\ candidate = Unset
    /\ matches = Unset
    /\ whitelistFile = Unset
    /\ validateErr = Unset
    /\ arg = Unset
    /\ ret = Unset

NextVerify == VerifyTx

SpecVerify == InitVerify /\ [][NextVerify]_vars

(***************************************************************************)
(* Generate on routes files of any routes                                  *)
(***************************************************************************)
InitGenerate ==
    /\ pc = "parsed"
    /\ routesFile \in GenerateRoutesFiles
    /\ blocks = Unset
    /\ config = Unset
    /\ parseOut = Unset
    /\ genOut = Unset
    /\ txFile = Unset
    /\ verifyOut = Unset
    /\ route = Unset
    /\ candidate = Unset
    /\ matches = Unset
    /\ whitelistFile = Unset
    /\ validateErr = Unset
    /\ arg = Unset
    /\ ret = Unset

NextGenerate == GenerateCmd

SpecGenerate == InitGenerate /\ [][NextGenerate]_vars

(***************************************************************************)
(* LoadConfig, then ValidateRoute with the config it returned              *)
(***************************************************************************)
InitWhitelist ==
    /\ pc = "start"
    /\ whitelistFile \in WhitelistFiles
    /\ route \in WhitelistRoutes
    /\ blocks = Unset
    /\ config = Unset
    /\ parseOut = Unset
    /\ routesFile = Unset
    /\ genOut = Unset
    /\ txFile = Unset
    /\ verifyOut = Unset
    /\ candidate = Unset
    /\ matches = Unset
    /\ validateErr = Unset
    /\ arg = Unset
    /\ ret = Unset

LoadConfigCmd ==
    /\ pc = "start"
    /\ \E out \in {LoadConfig(whitelistFile)} :
          /\ config' = out.config
          /\ pc' = IF out.err = "none" THEN "loaded" ELSE "load_failed"
    /\ UNCHANGED << blocks, parseOut, routesFile, genOut, txFile, verifyOut,
                    route, candidate, matches, whitelistFile, validateErr,
                    arg, ret >>

ValidateRouteCmd ==
    /\ pc = "loaded"
    /\ validateErr' = ValidateRoute(config, route.RouteInfo)
    /\ pc' = "validated"
    /\ UNCHANGED << blocks, config, parseOut, routesFile, genOut, txFile, verifyOut,
                    route, candidate, matches, whitelistFile,
                    arg, ret >>

NextWhitelist == LoadConfigCmd \/ ValidateRouteCmd

SpecWhitelist == InitWhitelist /\ [][NextWhitelist]_vars

(***************************************************************************)
(* parseTokenID, parseAndPadAddress and ParseCustomHookMetadata, each      *)
(* called on its own                                                       *)
(***************************************************************************)
InitCodec ==
    /\ pc = "start"
    /\ arg \in CodecArgs
    /\ ret = Unset
    /\ blocks = Unset
    /\ config = Unset
    /\ parseOut = Unset
    /\ routesFile = Unset
    /\ genOut = Unset
    /\ txFile = Unset
    /\ verifyOut = Unset
    /\ route = Unset
    /\ candidate = Unset
    /\ matches = Unset
    /\ whitelistFile = Unset
    /\ validateErr = Unset

CallParseTokenID ==
    /\ pc = "start"
    /\ arg.fn = "parseTokenID"
    /\ ret' = parseTokenID(arg.s)
    /\ pc' = "token_parsed"
    /\ UNCHANGED << blocks, config, parseOut, routesFile, genOut, txFile, verifyOut,
                    route, candidate, matches, whitelistFile, validateErr, arg >>

CallParseAndPadAddress ==
    /\ pc = "start"
    /\ arg.fn = "parseAndPadAddress"
    /\ ret' = parseAndPadAddress(arg.s)
    /\ pc' = "padded"
    /\ UNCHANGED << blocks, config, parseOut, routesFile, genOut, txFile, verifyOut,
                    route, candidate, matches, whitelistFile, validateErr, arg >>

CallParseCustomHookMetadata ==
    /\ pc = "start"
    /\ arg.fn = "ParseCustomHookMetadata"
    /\ ret' = ParseCustomHookMetadata(arg.doc)
    /\ pc' = "metadata_parsed"
    /\ UNCHANGED << blocks, config, parseOut, routesFile, genOut, txFile, verifyOut,
                    route, candidate, matches, whitelistFile, validateErr, arg >>

NextCodec == CallParseTokenID \/ CallParseAndPadAddress \/ CallParseCustomHookMetadata

SpecCodec == InitCodec /\ [][NextCodec]_vars

(***************************************************************************)
(* The claims                                                              *)
(***************************************************************************)
RECURSIVE SumSeq(_)
SumSeq(s) == IF s = << >> THEN 0 ELSE Head(s) + SumSeq(Tail(s))

\* the integer an amount string denotes, zero when it denotes none
AmountValue(s) == IF NewIntFromString(s).ok THEN NewIntFromString(s).val ELSE 0

\* the amount override of a route if it has one, else its amount
EffectiveAmount(r) == IF r.RouteInfo.Amount # << >> THEN r.RouteInfo.Amount ELSE r.Amount

\* C1: for a route with base amount A and a non-empty amount override B, the
\* message Generate writes has amount B, and a message that MatchesRoute
\* accepts has amount B
C1_OverridePrecedence ==
    (pc \in {"generated", "matched", "compared"} /\ route.RouteInfo.Amount # << >>) =>
        /\ pc \in {"generated", "matched"} =>
              /\ NewIntFromString(route.RouteInfo.Amount).ok
              /\ genOut.msgs[1].Amount = NewIntFromString(route.RouteInfo.Amount).val
        /\ (pc \in {"matched", "compared"} /\ matches = "true") =>
              IntToStr(candidate.Amount) = route.RouteInfo.Amount

\* Generate succeeded on a route whose override differs from its amount
C1_Witness ==
    /\ pc = "generated"
    /\ route.Amount = IntToStr(1000000)
    /\ route.RouteInfo.Amount = IntToStr(500000)
    /\ genOut.msgs[1].Amount = 1000000

\* C2: for every route on which Generate succeeds, the generated message
\* satisfies MatchesRoute with that route
C2_GenerateThenMatch == pc = "matched" => matches = "true"

\* Generate succeeded on a route without override whose amount is written "05",
\* and MatchesRoute refused the message
C2_Witness ==
    /\ pc = "matched"
    /\ route.Amount = << "0", "5" >>
    /\ route.RouteInfo.Amount = << >>
    /\ matches = "false"

\* C3: the verify command, run on the routes file and on the file the generate
\* command wrote, decodes both files and reports the transaction valid
C3_HandOff == pc = "verified" => (verifyOut.err = "none" /\ verifyOut.result.Valid)

\* the verify command could not decode the file the generate command wrote
C3_Witness ==
    /\ pc = "verified"
    /\ Len(genOut.msgs) > 0
    /\ verifyOut.err = "parse_transaction_file"

\* the routes and the MsgRemoteTransfer messages Verify was run on
IsRemoteTransfer(anyMsg) == anyMsg.TypeUrl = TypeRemoteTransfer /\ anyMsg.Value.ok

VerifiedRoutes == routesFile.value.Routes

VerifiedMsgs == SelectSeq(txFile.value.BodyBytes.Messages, IsRemoteTransfer)

\* a pairing of the routes with the messages: each message paired with one
\* route, each route with one message that matches it
IsPairing(f) ==
    /\ \A i, j \in DOMAIN f : f[i] = f[j] => i = j
    /\ \A k \in 1..Len(VerifiedMsgs) : \E i \in DOMAIN f : f[i] = k
    /\ \A i \in DOMAIN f :
          /\ VerifiedRoutes[i].RouteInfo # NilRouteInfo
          /\ MatchOutcome(VerifiedMsgs[f[i]].Value.msg, VerifiedRoutes[i]) = "true"

\* C4: whenever Verify reports valid there is a one-to-one pairing of the
\* routes with the transaction's MsgRemoteTransfer messages in which every
\* message matches its route
C4_OneToOne ==
    (pc = "verified_tx" /\ verifyOut.err = "none" /\ verifyOut.result.Valid) =>
        \E f \in [1..Len(VerifiedRoutes) -> 1..Len(VerifiedMsgs)] : IsPairing(f)

\* Verify reported valid for two routes and two messages of which one
\* matches both routes and the other matches none
C4_Witness ==
    /\ pc = "verified_tx"
    /\ verifyOut.err = "none"
    /\ verifyOut.result.Valid
    /\ verifyOut.result.MatchedCount = 2
    /\ Len(VerifiedMsgs) = 2
    /\ \E k \in 1..2 : \A i \in 1..2 :
          MatchOutcome(VerifiedMsgs[k].Value.msg, VerifiedRoutes[i]) = "false"

\* C5: the report of Verify has Valid exactly when MatchedCount equals
\* TotalRoutes and Errors is empty
C5_ValidIffAllMatched ==
    (pc = "verified_tx" /\ verifyOut.err = "none") =>
        (verifyOut.result.Valid <=>
            /\ verifyOut.result.MatchedCount = verifyOut.result.TotalRoutes
            /\ verifyOut.result.Errors = << >>)

\* Verify found no message for one of two routes and reported invalid
C5_Witness ==
    /\ pc = "verified_tx"
    /\ verifyOut.err = "none"
    /\ ~verifyOut.result.Valid
    /\ verifyOut.result.TotalRoutes = 2
    /\ verifyOut.result.MatchedCount = 1
    /\ Len(VerifiedMsgs) = 2

\* the recipient of the route canonicalizes: hex or bech32 of at most 32 bytes
Canonicalizes(r) == parseAndPadAddress(r.RouteInfo.Recipient).err = "none"

\* the conditions on the amount, the token id and the recipient
AmountTokenRecipientAgree(msg, r) ==
    /\ IntToStr(msg.Amount) = EffectiveAmount(r)
    /\ SprintfHex(msg.TokenId) = TrimPrefix(ToLower(r.RouteInfo.TokenID), << "0", "x" >>)
    /\ msg.Recipient = parseAndPadAddress(r.RouteInfo.Recipient).bytes

\* C6: for a route whose recipient canonicalizes, MatchesRoute returns true
\* exactly when the domains are equal, the amount of the message in decimal
\* is the effective amount of the route, the token id of the message in hex
\* is the token id of the route in lower case without 0x, and the recipient
\* of the message is the recipient of the route padded to 32 bytes
C6_MatchesIffFour ==
    (pc \in {"matched", "compared"} /\ Canonicalizes(route)) =>
        (matches = "true" <=>
            /\ candidate.DestinationDomain = route.RouteInfo.DestinationDomain
            /\ AmountTokenRecipientAgree(candidate, route))

\* MatchesRoute refused a message that differs from the route in the domain only
C6_Witness ==
    /\ pc = "compared"
    /\ Canonicalizes(route)
    /\ AmountTokenRecipientAgree(candidate, route)
    /\ candidate.DestinationDomain # route.RouteInfo.DestinationDomain
    /\ matches = "false"

\* the responses of the blocks the parse command asked for, as <<height, index>>
Queried ==
    UNION { { << h, i >> : i \in 1..Len(blocks[h]) } :
              h \in parseOut.fromHeight..parseOut.toHeight }

Response(q) == blocks[q[1]][q[2]]

\* a transaction with one MsgRemoteTransfer the multisig sent with metadata
CarriesTransfer(resp) ==
    /\ resp.ok
    /\ resp.Body # NilBody
    /\ Len(resp.Body.Messages) = 1
    /\ IsRemoteTransfer(resp.Body.Messages[1])
    /\ resp.Body.Messages[1].Value.msg.Sender = Multisig
    /\ resp.Body.Messages[1].Value.msg.CustomHookMetadata # EmptyString

MetadataOf(resp) ==
    ParseCustomHookMetadata(resp.Body.Messages[1].Value.msg.CustomHookMetadata)

\* the routing information passes the whitelist of the parser's config
PassesGate(ri) ==
    /\ ri.DestinationDomain \in DOMAIN config.Whitelist.Domains
    /\ \E k \in 1..Len(config.Whitelist.Domains[ri.DestinationDomain]) :
          config.Whitelist.Domains[ri.DestinationDomain][k] = ToLower(TrimSpace(ri.Recipient))

\* the message of the transaction is skipped: its metadata does not parse,
\* lacks a required field, or fails the whitelist
Skipped(resp) ==
    \/ MetadataOf(resp).err # "none"
    \/ config # NilConfig /\ ~PassesGate(MetadataOf(resp).routeInfo)

\* C7: ParseRoutes returns an error exactly when the query of the transactions
\* fails; of N transactions that each carry one transfer, those with a
\* problem are skipped and the others each yield a route
C7_OnlyQueryFatal ==
    (pc \in {"parsed", "parse_failed"}) =>
        /\ parseOut.err # "none" <=> parseOut.queryFailed
        /\ (parseOut.err = "none" /\ \A q \in Queried : CarriesTransfer(Response(q))) =>
              Len(parseOut.routes.Routes)
                  = Cardinality(Queried) - Cardinality({q \in Queried : Skipped(Response(q))})

\* three or more transactions, exactly one with metadata that is no JSON and
\* none with another problem, gave one route fewer than transactions
C7_Witness ==
    /\ pc = "parsed"
    /\ \A q \in Queried : CarriesTransfer(Response(q))
    /\ Cardinality(Queried) >= 3
    /\ Cardinality({q \in Queried : MetadataOf(Response(q)).err = "json"}) = 1
    /\ Cardinality({q \in Queried : Skipped(Response(q))}) = 1
    /\ Len(parseOut.routes.Routes) = Cardinality(Queried) - 1

\* the transfers the whitelist of the parser's config rejects
Rejected ==
    {q \in Queried : /\ CarriesTransfer(Response(q))
                     /\ MetadataOf(Response(q)).err = "none"
                     /\ ~PassesGate(MetadataOf(Response(q)).routeInfo)}

\* C8: with a whitelist config, every route ParseRoutes returns has a
\* configured domain and a recipient that, trimmed and in lower case, is in
\* the list of that domain; a rejected transfer is no route and the total is
\* the sum over the routes returned
C8_WhitelistGate ==
    (pc = "parsed" /\ config # NilConfig) =>
        /\ \A i \in 1..Len(parseOut.routes.Routes) :
              PassesGate(parseOut.routes.Routes[i].RouteInfo)
        /\ \A q \in Rejected : \A i \in 1..Len(parseOut.routes.Routes) :
              parseOut.routes.Routes[i].TxHash # Response(q).TxHash
        /\ parseOut.routes.TotalAmount
              = IntToStr(SumSeq([i \in 1..Len(parseOut.routes.Routes) |->
                                    AmountValue(parseOut.routes.Routes[i].Amount)]))

\* a parse with a whitelist that rejected a transfer and returned a route
C8_Witness ==
    /\ pc = "parsed"
    /\ config # NilConfig
    /\ Rejected # {}
    /\ Len(parseOut.routes.Routes) > 0

\* the two addresses are equal once trimmed, whatever the case of their letters
SameAddress(a, b) == ToUpper(TrimSpace(a)) = ToUpper(TrimSpace(b))

NativeAmount(r) ==
    LET resp == Response(CHOOSE q \in Queried : Response(q).TxHash = r.TxHash)
        msg == resp.Body.Messages[1].Value.msg
    IN  IF resp.Body.Messages[1].TypeUrl = TypeSend THEN IntToStr(msg.Amount[1].Amount)
        ELSE IntToStr(msg.Amount)

\* C10: the total ParseRoutes returns is the sum, over the routes returned, of
\* the integer each route's effective amount denotes (the override if there
\* is one, else the amount transferred), zero for an amount that denotes no
\* integer; each route is returned with its effective amount as written
C10_TotalIsSum ==
    pc = "parsed" =>
        /\ parseOut.routes.TotalAmount
              = IntToStr(SumSeq([i \in 1..Len(parseOut.routes.Routes) |->
                    AmountValue(EffectiveAmount(parseOut.routes.Routes[i]))]))
        /\ \A i \in 1..Len(parseOut.routes.Routes) :
              LET r == parseOut.routes.Routes[i]
              IN  r.Amount = IF r.RouteInfo.Amount # << >> THEN r.RouteInfo.Amount
                                                           ELSE NativeAmount(r)

\* routes returned with an amount that is no number and with an override
\* that differs from the amount transferred; the total counts the override
C10_Witness ==
    /\ pc = "parsed"
    /\ \E i, j \in 1..Len(parseOut.routes.Routes) :
          /\ parseOut.routes.Routes[i].Amount = << "x" >>
          /\ parseOut.routes.Routes[j].Amount = << "7" >>
          /\ NativeAmount(parseOut.routes.Routes[j]) = << "5" >>
    /\ parseOut.routes.TotalAmount = << "7" >>

\* the queried transactions with one MsgRemoteTransfer that decodes
RemoteTransfers ==
    {q \in Queried : /\ Response(q).ok
                     /\ Response(q).Body # NilBody
                     /\ Len(Response(q).Body.Messages) = 1
                     /\ IsRemoteTransfer(Response(q).Body.Messages[1])}

TransferMsg(q) == Response(q).Body.Messages[1].Value.msg

\* the transaction of the response is the source of a route returned
HasRoute(q) ==
    \E i \in 1..Len(parseOut.routes.Routes) :
        parseOut.routes.Routes[i].TxHash = Response(q).TxHash

IncomingWithRouting(q) ==
    /\ TransferMsg(q).Recipient = Pad32(MultisigBytes)
    /\ TransferMsg(q).CustomHookMetadata # EmptyString
    /\ MetadataOf(Response(q)).err = "none"
    /\ config # NilConfig => PassesGate(MetadataOf(Response(q)).routeInfo)

\* C12: a MsgRemoteTransfer in the height range that was sent to the multisig
\* with valid routing metadata is the source of a route ParseRoutes returns
C12_IncomingExtracted ==
    pc = "parsed" => \A q \in RemoteTransfers : IncomingWithRouting(q) => HasRoute(q)

\* a parse over a transfer another account sent to the multisig with valid
\* routing metadata, which is the source of no route
C12_Witness ==
    /\ pc = "parsed"
    /\ \E q \in RemoteTransfers :
          /\ IncomingWithRouting(q)
          /\ TransferMsg(q).Sender = OtherAccount
          /\ ~HasRoute(q)

\* the routing information is there, with the three fields it requires
RouteInfoComplete(ri) ==
    /\ ri # NilRouteInfo
    /\ ri.DestinationDomain # 0
    /\ ri.Recipient # << >>
    /\ ri.TokenID # << >>

\* C13: every route ParseRoutes returns has routing information with a
\* destination domain other than zero, a recipient and a token id, whether
\* it came from custom_hook_metadata, the message's own fields or the memo
C13_RouteInvariant ==
    pc = "parsed" =>
        \A i \in 1..Len(parseOut.routes.Routes) :
            RouteInfoComplete(parseOut.routes.Routes[i].RouteInfo)

\* routes returned from each source: one with metadata, one of a transfer
\* without metadata, and one of a bank send whose memo names a domain only,
\* returned without recipient and token id
C13_Witness ==
    /\ pc = "parsed"
    /\ \E i, j, k \in 1..Len(parseOut.routes.Routes) :
          /\ parseOut.routes.Routes[i].CustomHookMetadata # EmptyString
          /\ parseOut.routes.Routes[j].TxHash[1] = "outbound"
          /\ parseOut.routes.Routes[k].TxHash[1] = "bankbare"
          /\ parseOut.routes.Routes[k].RouteInfo.Recipient = << >>
          /\ parseOut.routes.Routes[k].RouteInfo.TokenID = << >>

\* the routes of the routes file Generate was run on
GeneratedRoutes == routesFile.value.Routes

\* C14: when Generate succeeds on n routes it returns n messages, the i-th
\* built from the i-th route: its sender is the generator's multisig address,
\* its destination domain the route's, its amount, token id and recipient
\* those the route's strings denote
C14_OneMessagePerRoute ==
    pc = "generated" =>
        /\ Len(genOut.msgs) = Len(GeneratedRoutes)
        /\ \A i \in 1..Len(GeneratedRoutes) :
              LET r == GeneratedRoutes[i]
                  m == genOut.msgs[i]
              IN  /\ m.Sender = Multisig
                  /\ m.DestinationDomain = r.RouteInfo.DestinationDomain
                  /\ m.Amount = AmountValue(r.Amount)
                  /\ SprintfHex(m.TokenId)
                        = TrimPrefix(ToLower(r.RouteInfo.TokenID), << "0", "x" >>)
                  /\ SprintfHex(m.Recipient) = ExpectedRecipientHex(r)

\* two routes to different domains generated in their order, from a routes
\* file that names another account than the generator's multisig address
C14_Witness ==
    /\ pc = "generated"
    /\ Len(GeneratedRoutes) = 2
    /\ GeneratedRoutes[1].RouteInfo.DestinationDomain
          # GeneratedRoutes[2].RouteInfo.DestinationDomain
    /\ routesFile.value.MultisigAddr # Multisig
    /\ Len(genOut.msgs) = 2

\* the route cannot be generated: it has no routing information, an amount
\* that is no integer, a token id that is not hex of 32 bytes, or a
\* recipient that decodes neither as 0x-hex nor as bech32
Faulty(r) ==
    \/ r.RouteInfo = NilRouteInfo
    \/ ~NewIntFromString(r.Amount).ok
    \/ parseTokenID(r.RouteInfo.TokenID).err # "none"
    \/ parseAndPadAddress(r.RouteInfo.Recipient).err \in {"hex", "bech32"}

\* C15: if a route at any position is faulty, Generate returns an error and
\* no messages
C15_AllOrNothing ==
    (pc \in {"generated", "generate_failed"}
        /\ \E i \in 1..Len(GeneratedRoutes) : Faulty(GeneratedRoutes[i])) =>
        /\ genOut.err \notin {"none", "panic"}
        /\ genOut.msgs = << >>

\* a route that generates followed by a route whose amount is no integer:
\* Generate returned the error and none of the messages
C15_Witness ==
    /\ pc = "generate_failed"
    /\ Len(GeneratedRoutes) = 2
    /\ ~Faulty(GeneratedRoutes[1])
    /\ GenerateMsg(Multisig, GeneratedRoutes[1]).err = "none"
    /\ ~NewIntFromString(GeneratedRoutes[2].Amount).ok
    /\ genOut.err = "invalid_amount"
    /\ genOut.msgs = << >>

HexDigits == HexChars \o << "A", "B", "C", "D", "E", "F" >>

\* the string is an even number of hex digits
IsHexText(s) == Len(s) % 2 = 0 /\ \A i \in 1..Len(s) : IndexOf(s[i], HexDigits) > 0

\* the token id string without its optional 0x
TokenBody(s) == IF Len(s) >= 2 /\ s[1] = "0" /\ s[2] = "x" THEN SubSeq(s, 3, Len(s)) ELSE s

C17_TooLongIsError ==
    (pc = "padded" /\ Len(arg.bytes) > 32) => ret.err \notin {"none", "panic"}

\* parseAndPadAddress called on the bech32 form of an address of 33 bytes
C17_Witness ==
    /\ pc = "padded"
    /\ arg.form = "bech32"
    /\ Len(arg.bytes) = 33
    /\ AccAddressFromBech32(arg.s).ok
    /\ ret.err = "panic"

\* C18: for an address of 20 bytes, parseAndPadAddress of its 0x-hex form and
\* of its bech32 form both return 12 zero bytes followed by the 20 bytes, so
\* the same value; whenever it succeeds, on an address of at most 32 bytes,
\* it returns 32 bytes: zero bytes, then the bytes of the address
C18_PadRoundTrip ==
    pc = "padded" =>
        /\ Len(arg.bytes) = 20 =>
              /\ ret.err = "none"
              /\ ret.bytes = [i \in 1..12 |-> 0] \o arg.bytes
        /\ ret.err = "none" =>
              /\ Len(arg.bytes) <= 32
              /\ Len(ret.bytes) = 32
              /\ \A i \in 1..32 :
                    ret.bytes[i] = IF i <= 32 - Len(arg.bytes) THEN 0
                                   ELSE arg.bytes[i - (32 - Len(arg.bytes))]

\* the bech32 form of an address of 20 bytes that are not all the same,
\* padded on the left
C18_Witness ==
    /\ pc = "padded"
    /\ arg.form = "bech32"
    /\ Len(arg.bytes) = 20
    /\ arg.bytes[1] # arg.bytes[2]
    /\ ret.err = "none"
    /\ SubSeq(ret.bytes, 13, 32) = arg.bytes
    /\ ret.bytes = parseAndPadAddress(Hex0x(arg.bytes)).bytes

\* the field of the JSON object is a number other than zero
NonZeroNumber(j) == j.t = "number" /\ j.v # 0

\* the field of the JSON object is a string that is not empty
NonEmptyText(j) == j.t = "string" /\ j.v # << >>

\* the text is JSON with a destination_domain other than zero, a recipient
\* and a token_id
HasRequiredFields(doc) ==
    /\ doc.kind = "object"
    /\ NonZeroNumber(doc.fields.destination_domain)
    /\ NonEmptyText(doc.fields.recipient)
    /\ NonEmptyText(doc.fields.token_id)

\* C19, as stated: ParseCustomHookMetadata succeeds exactly when the input is
\* JSON whose destination_domain is not zero and whose recipient and
\* token_id are not empty
C19_SucceedsIffRequiredFields ==
    pc = "metadata_parsed" => (ret.err = "none" <=> HasRequiredFields(arg.doc))

\* the JSON object decodes into a RouteInfo: destination_domain, if there,
\* is a number that is not negative, and recipient, token_id and amount, if
\* there, are strings
DecodesAsRouteInfo(doc) ==
    /\ doc.kind = "object"
    /\ doc.fields.destination_domain.t # "string"
    /\ doc.fields.destination_domain.t = "number" => doc.fields.destination_domain.v >= 0
    /\ doc.fields.recipient.t # "number"
    /\ doc.fields.token_id.t # "number"
    /\ doc.fields.amount.t # "number"

\* C19, amended: ParseCustomHookMetadata succeeds exactly when the input is
\* JSON that decodes into a RouteInfo, with a destination_domain other than
\* zero, a recipient and a token_id; it fails on an input that is empty or
\* no JSON and when one of the three fields is missing; on success it
\* returns the fields as written, the amount empty when the input has none
C19_SucceedsIffDecodes ==
    pc = "metadata_parsed" =>
        /\ ret.err = "none" <=> (DecodesAsRouteInfo(arg.doc) /\ HasRequiredFields(arg.doc))
        /\ arg.doc \in {EmptyString, InvalidJSON} => ret.err = "json"
        /\ (DecodesAsRouteInfo(arg.doc) /\ ~HasRequiredFields(arg.doc)) =>
              ret.err \in {"destination_domain is required", "recipient is required",
                           "token_id is required"}
        /\ ret.err = "none" =>
              /\ ret.routeInfo.DestinationDomain = arg.doc.fields.destination_domain.v
              /\ ret.routeInfo.Recipient = arg.doc.fields.recipient.v
              /\ ret.routeInfo.TokenID = arg.doc.fields.token_id.v
              /\ ret.routeInfo.Amount = IF arg.doc.fields.amount.t = "absent" THEN << >>
                                        ELSE arg.doc.fields.amount.v

\* metadata with the three fields and no amount, returned with the amount empty
C19_Witness ==
    /\ pc = "metadata_parsed"
    /\ HasRequiredFields(arg.doc)
    /\ arg.doc.fields.amount.t = "absent"
    /\ ret.err = "none"
    /\ ret.routeInfo.Amount = << >>
    /\ ret.routeInfo.Recipient = Hex0x(AddrA)

\* the recipient is neither 0x followed by hex nor a bech32 address
Uncanonical(recipient) ==
    /\ ~(HasPrefix(recipient, << "0", "x" >>)
            /\ HexDecodeString(SubSeq(recipient, 3, Len(recipient))).ok)
    /\ ~AccAddressFromBech32(recipient).ok

\* C20: for a route whose recipient is neither valid 0x-hex nor valid bech32,
\* MatchesRoute returns false for every message
C20_UncanonicalNeverMatches ==
    (pc = "compared" /\ Uncanonical(route.RouteInfo.Recipient)) => matches = "false"

\* a route whose recipient is 64 hex digits without 0x, matched by the
\* message whose recipient is those 32 bytes
C20_Witness ==
    /\ pc = "compared"
    /\ route.RouteInfo.Recipient = SprintfHex(candidate.Recipient)
    /\ Uncanonical(route.RouteInfo.Recipient)
    /\ parseAndPadAddress(route.RouteInfo.Recipient).err = "bech32"
    /\ matches = "true"

\* the routes returned for the transaction with this hash, in their order
RoutesOf(hash) == SelectSeq(parseOut.routes.Routes, LAMBDA r : r.TxHash = hash)

\* the routing information ParseRoutes is to use for a MsgRemoteTransfer
RoutingOfRemote(msg) ==
    IF msg.CustomHookMetadata # EmptyString
    THEN ParseCustomHookMetadata(msg.CustomHookMetadata).routeInfo
    ELSE RouteInfo(msg.DestinationDomain, Hex0x(msg.Recipient), Hex0x(msg.TokenId), << >>)

\* a MsgRemoteTransfer of the multisig that is to yield a route: it has
\* routing information, which passes the whitelist if there is one
AdmittedRemote(anyMsg) ==
    /\ IsRemoteTransfer(anyMsg)
    /\ anyMsg.Value.msg.Sender = Multisig
    /\ IF anyMsg.Value.msg.CustomHookMetadata # EmptyString
       THEN ParseCustomHookMetadata(anyMsg.Value.msg.CustomHookMetadata).err = "none"
       ELSE anyMsg.Value.msg.DestinationDomain # 0
    /\ config # NilConfig => PassesGate(RoutingOfRemote(anyMsg.Value.msg))

\* the queried transactions whose memo is there and is no routing metadata
BadMemo ==
    {q \in Queried : /\ Response(q).ok
                     /\ Response(q).Body # NilBody
                     /\ Response(q).Body.Memo # EmptyString
                     /\ RoutingMetaOf(Response(q).Body.Memo).nil}

\* C21: a memo that does not parse as routing metadata is no error, and the
\* routes of its transaction are those of its MsgRemoteTransfer messages,
\* in their order: none comes from a bank send
C21_BadMemoIsNoRouting ==
    (pc \in {"parsed", "parse_failed"} /\ BadMemo # {}) =>
        /\ parseOut.err # "none" <=> parseOut.queryFailed
        /\ pc = "parsed" =>
              \A q \in BadMemo :
                  LET admitted == SelectSeq(Response(q).Body.Messages, AdmittedRemote)
                      got == RoutesOf(Response(q).TxHash)
                  IN  /\ Len(got) = Len(admitted)
                      /\ \A i \in 1..Len(got) :
                            /\ got[i].CustomHookMetadata
                                  = admitted[i].Value.msg.CustomHookMetadata
                            /\ got[i].RouteInfo = RoutingOfRemote(admitted[i].Value.msg)

\* a parse over a transaction whose memo is no JSON, with a bank send to the
\* multisig and a transfer of the multisig: one route, that of the transfer
C21_Witness ==
    /\ pc = "parsed"
    /\ \E q \in BadMemo :
          /\ \E k \in 1..Len(Response(q).Body.Messages) :
                Response(q).Body.Messages[k].TypeUrl = TypeSend
          /\ Len(RoutesOf(Response(q).TxHash)) = 1
          /\ RoutesOf(Response(q).TxHash)[1].CustomHookMetadata # EmptyString

\* the amount a message carries, as ExtractHyperlaneTransfers writes it
CarriedAmount(anyMsg) ==
    IF anyMsg.TypeUrl = TypeSend
    THEN IF Len(anyMsg.Value.msg.Amount) = 0 THEN << >>
         ELSE IntToStr(anyMsg.Value.msg.Amount[1].Amount)
    ELSE IntToStr(anyMsg.Value.msg.Amount)

\* where the source of a route was met: height, transaction of the block,
\* message of the transaction (the messages of a transaction of the blocks
\* carry different amounts)
SourcePosition(r) ==
    LET q == CHOOSE q \in Queried : Response(q).TxHash = r.TxHash
        messages == Response(q).Body.Messages
        k == CHOOSE k \in 1..Len(messages) :
                 messages[k].Value.ok /\ CarriedAmount(messages[k]) = r.Amount
    IN  << q[1], q[2], k >>

Earlier(p, q) ==
    \/ p[1] < q[1]
    \/ p[1] = q[1] /\ p[2] < q[2]
    \/ p[1] = q[1] /\ p[2] = q[2] /\ p[3] < q[3]

\* C22: the routes ParseRoutes returns are in the order their source messages
\* were met: by height, then by transaction of the block, then by message of
\* the transaction
C22_EncounterOrder ==
    pc = "parsed" =>
        \A i \in 1..(Len(parseOut.routes.Routes) - 1) :
            Earlier(SourcePosition(parseOut.routes.Routes[i]),
                    SourcePosition(parseOut.routes.Routes[i + 1]))

\* a parse over a transaction with a bank send, a transfer and a transfer that
\* is skipped, followed by a transaction with a transfer and a bank send: the
\* routes of the first, then those of the second
C22_Witness ==
    /\ pc = "parsed"
    /\ \E i \in 1..(Len(parseOut.routes.Routes) - 3) :
          LET r(j) == parseOut.routes.Routes[i + j]
          IN  /\ r(0).TxHash = r(1).TxHash /\ r(2).TxHash = r(3).TxHash
              /\ r(1).TxHash # r(2).TxHash
              /\ r(0).CustomHookMetadata = EmptyString
              /\ r(1).CustomHookMetadata # EmptyString
              /\ r(2).CustomHookMetadata # EmptyString
              /\ r(3).CustomHookMetadata = EmptyString
              /\ Len(Response(CHOOSE q \in Queried : Response(q).TxHash = r(0).TxHash)
                         .Body.Messages) = 3

\* the hashes and heights of the transactions of the blocks fromHeight..toHeight
\* that decode, in ascending height and in the order of each block
RECURSIVE TransactionsOfRange(_, _)
TransactionsOfRange(fromHeight, toHeight) ==
    IF fromHeight > toHeight THEN << >>
    ELSE LET decodable == SelectSeq(blocks[fromHeight], LAMBDA txResp : txResp.ok)
         IN  [i \in 1..Len(decodable) |-> << decodable[i].TxHash, fromHeight >>]
                 \o TransactionsOfRange(fromHeight + 1, toHeight)

\* C23: GetTransactionsByHeight returns every transaction of every block of
\* the range, in ascending height, and when the query fails at a height of
\* the range it returns an error and no transaction
C23_ScanComplete ==
    pc = "queried" =>
        IF arg.queryFailed
        THEN ret.err # "none" /\ ret.txs = << >>
        ELSE /\ ret.err = "none"
             /\ [i \in 1..Len(ret.txs) |-> << ret.txs[i].Hash, ret.txs[i].BlockHeight >>]
                   = TransactionsOfRange(arg.fromHeight, arg.toHeight)

\* a query over a block of more transactions than one page holds: only the
\* first page is returned
C23_Witness ==
    /\ pc = "queried"
    /\ ~arg.queryFailed
    /\ arg.fromHeight = arg.toHeight
    /\ Len(blocks[arg.fromHeight]) = PageLimit + 1
    /\ Len(ret.txs) = PageLimit

\* C24: whenever Verify reports valid, every message of the transaction body
\* is a MsgRemoteTransfer that decodes and matches some route
C24_NoOtherMessage ==
    (pc = "verified_tx" /\ verifyOut.err = "none" /\ verifyOut.result.Valid) =>
        \A k \in 1..Len(txFile.value.BodyBytes.Messages) :
            /\ IsRemoteTransfer(txFile.value.BodyBytes.Messages[k])
            /\ \E i \in 1..Len(VerifiedRoutes) :
                  /\ VerifiedRoutes[i].RouteInfo # NilRouteInfo
                  /\ MatchOutcome(txFile.value.BodyBytes.Messages[k].Value.msg,
                                  VerifiedRoutes[i]) = "true"

\* Verify reported valid for one route and a transaction of the message of
\* that route and a bank send
C24_Witness ==
    /\ pc = "verified_tx"
    /\ verifyOut.err = "none"
    /\ verifyOut.result.Valid
    /\ Len(VerifiedRoutes) = 1
    /\ Len(txFile.value.BodyBytes.Messages) = 2
    /\ \E k \in 1..2 : txFile.value.BodyBytes.Messages[k].TypeUrl = TypeSend

\* C25: whenever Verify reports valid, every MsgRemoteTransfer of the
\* transaction has the multisig address of the routes file as its sender
C25_SenderIsMultisig ==
    (pc = "verified_tx" /\ verifyOut.err = "none" /\ verifyOut.result.Valid) =>
        \A k \in 1..Len(VerifiedMsgs) :
            VerifiedMsgs[k].Value.msg.Sender = routesFile.value.MultisigAddr

\* Verify reported valid for one route and the one message that agrees with
\* it in domain, amount, token and recipient, sent by another account
C25_Witness ==
    /\ pc = "verified_tx"
    /\ verifyOut.err = "none"
    /\ verifyOut.result.Valid
    /\ verifyOut.result.MatchedCount = 1
    /\ Len(VerifiedMsgs) = 1
    /\ VerifiedMsgs[1].Value.msg.Sender = OtherAccount
    /\ routesFile.value.MultisigAddr = Multisig

\* C26: the amount of a route ParseRoutes returns is at most the amount its
\* source message carries
C26_AmountWithinReceived ==
    pc = "parsed" =>
        \A i \in 1..Len(parseOut.routes.Routes) :
            AmountValue(parseOut.routes.Routes[i].Amount)
                <= AmountValue(NativeAmount(parseOut.routes.Routes[i]))

\* a parse that returned a route of amount 7 for a transfer of 5
C26_Witness ==
    /\ pc = "parsed"
    /\ \E i \in 1..Len(parseOut.routes.Routes) :
          /\ parseOut.routes.Routes[i].Amount = << "7" >>
          /\ NativeAmount(parseOut.routes.Routes[i]) = << "5" >>

\* the bank send a route without custom_hook_metadata was derived from: the
\* MsgSend of the transaction of its hash
BankSendOf(r) ==
    LET messages == Response(CHOOSE q \in Queried : Response(q).TxHash = r.TxHash)
                        .Body.Messages
    IN  messages[CHOOSE k \in 1..Len(messages) : messages[k].TypeUrl = TypeSend].Value.msg

\* the routes derived from a bank send, by their index
BankRoutes ==
    {i \in 1..Len(parseOut.routes.Routes) :
        LET r == parseOut.routes.Routes[i]
        IN  /\ r.CustomHookMetadata = EmptyString
            /\ \E q \in Queried :
                  /\ Response(q).TxHash = r.TxHash
                  /\ \E k \in 1..Len(Response(q).Body.Messages) :
                        Response(q).Body.Messages[k].TypeUrl = TypeSend}

\* C27: a route derived from a bank send has denomination utia only if the
\* bank send is of one coin, of utia, and then its amount is that coin's
C27_DenomIsCoinSent ==
    pc = "parsed" =>
        \A i \in BankRoutes :
            LET r == parseOut.routes.Routes[i]
                coins == BankSendOf(r).Amount
            IN  r.Denom = "utia" =>
                    /\ Len(coins) = 1
                    /\ coins[1].Denom = "utia"
                    /\ r.Amount = IntToStr(coins[1].Amount)

\* a parse that returned a route of 4 utia for a bank send of 4 uatom and
\* 2 utia
C27_Witness ==
    /\ pc = "parsed"
    /\ \E i \in BankRoutes :
          LET r == parseOut.routes.Routes[i]
          IN  /\ r.Denom = "utia" /\ r.Amount = << "4" >>
              /\ BankSendOf(r).Amount[1] = [Denom |-> "uatom", Amount |-> 4]
              /\ Len(BankSendOf(r).Amount) = 2

\* C28: on the routes ParseRoutes returned, Generate succeeds and returns one
\* message per route
C28_Generatable ==
    pc \in {"generated", "generate_failed"} =>
        /\ genOut.err = "none"
        /\ Len(genOut.msgs) = Len(parseOut.routes.Routes)

\* Generate failed on the routes of a parse, one of them a route whose amount
\* is the override x
C28_Witness ==
    /\ pc = "generate_failed"
    /\ genOut.err = "invalid_amount"
    /\ \E i \in 1..Len(parseOut.routes.Routes) :
          /\ parseOut.routes.Routes[i].Amount = << "x" >>
          /\ parseOut.routes.Routes[i].RouteInfo.Amount = << "x" >>

\* C29: a MsgRemoteTransfer the multisig sent with empty custom_hook_metadata,
\* as Generate writes them, is the source of no route
C29_NoReforwarding ==
    pc = "parsed" =>
        \A q \in RemoteTransfers :
            (TransferMsg(q).Sender = Multisig
                /\ TransferMsg(q).CustomHookMetadata = EmptyString) => ~HasRoute(q)

\* a parse over a transfer with metadata and, at a later height, the message
\* Generate writes for the route of that transfer: a route for each
C29_Witness ==
    /\ pc = "parsed"
    /\ \E q \in RemoteTransfers, i \in 1..Len(parseOut.routes.Routes) :
          /\ parseOut.routes.Routes[i].CustomHookMetadata # EmptyString
          /\ parseOut.routes.Routes[i].BlockHeight < q[1]
          /\ GenerateMsg(Multisig, parseOut.routes.Routes[i]).err = "none"
          /\ TransferMsg(q) = GenerateMsg(Multisig, parseOut.routes.Routes[i]).msg
          /\ HasRoute(q)

\* the transactions GetTransactionsByHeight returned to the parse
ScannedTxs ==
    GetTransactionsByHeight(blocks, parseOut.fromHeight, parseOut.toHeight, 0).txs

\* a transaction with a transfer ParseRoutes passes its sender check
HasTransferOfMultisig(txn) ==
    \E i \in 1..Len(ExtractHyperlaneTransfers(txn)) :
        ExtractHyperlaneTransfers(txn)[i].From = Multisig

\* the routes of the loop of ParseRoutes over the transactions, unfiltered
UnfilteredRoutes ==
    LET acc == ProcessTxs([routes |-> << >>, total |-> 0, warnings |-> << >>],
                          ScannedTxs, Multisig, config)
    IN  [Routes |-> acc.routes, TotalAmount |-> IntToStr(acc.total),
         MultisigAddr |-> Multisig]

\* C30: FilterHyperlaneTransfersToAddress keeps every transaction with a
\* transfer whose sender is the multisig address, and the routes ParseRoutes
\* returns are those of its loop over the unfiltered transactions
C30_FilterTransparent ==
    pc = "parsed" =>
        /\ \E filtered \in { FilterHyperlaneTransfersToAddress(ScannedTxs, Multisig) } :
              \E kept \in { { filtered[j].Hash : j \in 1..Len(filtered) } } :
                  \A i \in 1..Len(ScannedTxs) :
                      HasTransferOfMultisig(ScannedTxs[i]) => ScannedTxs[i].Hash \in kept
        /\ parseOut.routes = UnfilteredRoutes

\* a parse over a transfer of the multisig and a transfer between other
\* accounts: the filter removed the second and the first yielded a route
C30_Witness ==
    /\ pc = "parsed"
    /\ Len(FilterHyperlaneTransfersToAddress(ScannedTxs, Multisig)) < Len(ScannedTxs)
    /\ \E i \in 1..Len(ScannedTxs) :
          /\ HasTransferOfMultisig(ScannedTxs[i])
          /\ \E j \in 1..Len(parseOut.routes.Routes) :
                parseOut.routes.Routes[j].TxHash = ScannedTxs[i].Hash

====
